---------------------------- MODULE Spec2Model ----------------------------
(***************************************************************************)
(* Model of the agent-orchestration core of oe-ai-agent:                   *)
(*   - ConversationManager (conversation-manager.ts): the message store    *)
(*     and buildLLMContext, the transcript reconstruction;                 *)
(*   - ToolExecutor (tool-executor.ts): registry, executeTool, audit log;  *)
(*   - AgentOrchestrator.processMessage (agent-orchestrator.ts): the       *)
(*     bounded tool-calling loop;                                          *)
(*   - invokeLLM (llm.ts): the fetch attempts, retries and backoff.        *)
(*                                                                         *)
(* Specifications:                                                         *)
(*   SpecCtx   arbitrary stored transcripts, buildLLMContext applied       *)
(*   SpecExec  the tool registry and executeTool                           *)
(*   Spec      processMessage driving the store and the executor           *)
(*   FairSpec  processMessage with every step eventually taken            *)
(*   SpecCrash processMessage interrupted in a tool round, then re-sent    *)
(*   SpecLLM   invokeLLM called by processMessage, attempt by attempt      *)
(*   SpecStore the store's operations on two conversations, then a build  *)
(*   SpecIso   processMessage on one conversation, other requests' store   *)
(*             operations on another                                       *)
(*   SpecValidate the tool registry and validateArguments                  *)
(*   SpecBatch the tool registry and executeTools                          *)
(*   SpecRace  two processMessage requests on one conversation             *)
(***************************************************************************)
EXTENDS Integers, Sequences, FiniteSets, TLC

VARIABLES
    conversations,  \* agentConversations table: id -> row
    messages,       \* agentMessages table, rows in insertion order
    ctx,            \* the last buildLLMContext call: input window and output
    tools,          \* ToolExecutor.tools: name -> ToolDefinition
    auditLog,       \* agentActions table, rows in insertion order
    exec,           \* the last ToolExecutor call: inputs and returned result
    execCount,      \* number of executeTool calls made so far
    handlerCalls,   \* spy: number of handler invocations made so far
    proc,           \* processMessage activations: request id -> local state
    env,            \* the environment processMessage runs in (clock, uuids, budget)
    llm,            \* the invokeLLM call in progress: attempts, waits, outcome
    op              \* the last store operation made from outside processMessage

vars == <<conversations, messages, ctx, tools, auditLog, exec, execCount,
          handlerCalls, proc, env, llm, op>>

storeVars == <<conversations, messages>>
execVars  == <<tools, auditLog, exec, execCount, handlerCalls>>

(***************************************************************************)
(* Values                                                                  *)
(***************************************************************************)

\* null / undefined / "" : every value that is falsy where the code tests it
Null == "NULL"

Roles == {"user", "assistant", "system", "tool"}

\* tool-call ids the model may issue
CallIds == {"c1", "c2"}

\* conversation ids (uuids) in use
ConvIds == {"convA", "convB"}

\* Strings that carry content or JSON are held as records, so that a JSON
\* text is never equal to the value it serializes nor to a plain text:
\*   Str(s)        the plain text s
\*   Stringify(v)  JSON.stringify(v), the JSON text of the value v
\*   NullStr       null / undefined where a string may stand
Str(s)       == [kind |-> "text", text |-> s, value |-> <<>>]
Stringify(v) == [kind |-> "json", text |-> "", value |-> v]
NullStr      == [kind |-> "null", text |-> "", value |-> <<>>]

\* !s for a string or null: null, undefined and "" are falsy
Falsy(s) == s.kind = "null" \/ (s.kind = "text" /\ s.text = "")

\* JSON.parse(s): the value, or a SyntaxError for a text that is not JSON
JsonParse(s) ==
    IF s.kind = "json" THEN [ok |-> TRUE, value |-> s.value]
    ELSE [ok |-> FALSE, value |-> <<>>]

\* message metadata {tokens, model, latency}, or none (null)
NoMetadata   == [present |-> FALSE, tokens |-> 0]
Metadata(n)  == [present |-> TRUE, tokens |-> n]

Max(S) == CHOOSE x \in S : \A y \in S : y <= x

SeqToSet(s) == {s[i] : i \in DOMAIN s}

\* no store operation was made yet.  seq counts the operations made, deleted
\* the message rows removed so far; deleting is the conversation of a
\* deleteConversation call that removed the messages and not yet the
\* conversation
NoOp == [name |-> "none", conversationId |-> Null, seq |-> 0, deleted |-> 0,
         deleting |-> Null]

\* Map.set(k, v) on a map held as a function
MapSet(f, k, v) == [x \in (DOMAIN f) \cup {k} |-> IF x = k THEN v ELSE f[x]]

(***************************************************************************)
(* ConversationManager: the store                                          *)
(***************************************************************************)

\* a mutant of addMessage: the row replaces the last stored row
addMessageOverwrite(msgs, params, uuid, dbNow) ==
    LET row == [id             |-> uuid,
                conversationId |-> params.conversationId,
                role           |-> params.role,
                content        |-> params.content,
                toolCalls      |-> params.toolCalls,
                toolCallId     |-> params.toolCallId,
                metadata       |-> params.metadata,
                createdAt      |-> dbNow]
    IN  IF msgs = <<>> THEN <<row>> ELSE [msgs EXCEPT ![Len(msgs)] = row]

\* addMessage: one row inserted; toolCalls / toolCallId default to null.
\* uuid is the value uuidv4() returned, dbNow the database clock at the
\* insert (createdAt is the column's defaultNow()).  A null toolCalls is
\* held as the empty list: every reader tests toolCalls && length > 0.
addMessage(msgs, params, uuid, dbNow) ==
    Append(msgs, [id             |-> uuid,
                  conversationId |-> params.conversationId,
                  role           |-> params.role,
                  content        |-> params.content,
                  toolCalls      |-> params.toolCalls,
                  toolCallId     |-> params.toolCallId,
                  metadata       |-> params.metadata,
                  createdAt      |-> dbNow])

\* the ordering key of the store: ORDER BY createdAt, id
KeyLess(a, b) ==
    \/ a.createdAt < b.createdAt
    \/ a.createdAt = b.createdAt /\ a.id < b.id

\* rows of s selected by keep, in the order of s
RECURSIVE SelectSeq2(_, _)
SelectSeq2(s, keep) ==
    IF s = <<>> THEN <<>>
    ELSE IF keep[1] THEN <<Head(s)>> \o SelectSeq2(Tail(s), Tail(keep))
         ELSE SelectSeq2(Tail(s), Tail(keep))

\* the rows of a set in ascending key order
RECURSIVE SortByKey(_)
SortByKey(S) ==
    IF S = {} THEN <<>>
    ELSE LET m == CHOOSE x \in S : \A y \in S \ {x} : KeyLess(x, y)
         IN  <<m>> \o SortByKey(S \ {m})

\* a mutant of ConvRows: the WHERE clause on the conversation is missing
ConvRowsAnyConversation(msgs, conversationId) == SeqToSet(msgs)

\* WHERE conversationId = c
ConvRows(msgs, conversationId) ==
    {msgs[i] : i \in {j \in DOMAIN msgs : msgs[j].conversationId = conversationId}}

\* getMessages: WHERE conversationId = c ORDER BY createdAt, id LIMIT limit
getMessages(msgs, conversationId, limit) ==
    LET all == SortByKey(ConvRows(msgs, conversationId))
    IN  SubSeq(all, 1, IF Len(all) < limit THEN Len(all) ELSE limit)

\* a mutant of getRecentMessages: the order is not descending, so the limit
\* keeps the oldest rows
getRecentMessagesOldest(msgs, conversationId, count) ==
    LET all == SortByKey(ConvRows(msgs, conversationId))
        n   == Len(all)
    IN  SubSeq(all, 1, IF n > count THEN count ELSE n)

\* getRecentMessages: ORDER BY createdAt DESC, id DESC LIMIT count, reversed:
\* the last count rows of the ascending order
getRecentMessages(msgs, conversationId, count) ==
    LET all == SortByKey(ConvRows(msgs, conversationId))
        n   == Len(all)
    IN  SubSeq(all, IF n > count THEN n - count + 1 ELSE 1, n)

\* archiveConversation: UPDATE ... SET status = 'archived' WHERE id = c
archiveConversation(convs, conversationId) ==
    IF conversationId \in DOMAIN convs
    THEN [convs EXCEPT ![conversationId].status = "archived"]
    ELSE convs

\* deleteConversation, first statement: DELETE FROM agentMessages WHERE
\* conversationId = c
deleteMessages(msgs, conversationId) ==
    SelectSeq(msgs, LAMBDA m : m.conversationId # conversationId)

\* a mutant of CascadeDelete: the foreign key has no ON DELETE CASCADE
CascadeNone(msgs, conversationId) == msgs

\* the rows the database removes with a conversation row: FOREIGN KEY
\* (conversation_id) REFERENCES agent_conversations(id) ON DELETE CASCADE
CascadeDelete(msgs, conversationId) ==
    SelectSeq(msgs, LAMBDA m : m.conversationId # conversationId)

\* deleteConversation, second statement: DELETE FROM agentConversations
\* WHERE id = c
deleteConversationRow(convs, conversationId) ==
    [c \in (DOMAIN convs) \ {conversationId} |-> convs[c]]

(***************************************************************************)
(* ConversationManager.buildLLMContext                                     *)
(***************************************************************************)

\* currentAssistantId = null: no assistant message is pending (message ids,
\* uuids, are held as non-zero numbers, ordered as the uuid strings are)
NoMsgId == 0

\* msg.toolCalls && msg.toolCalls.length > 0
HasToolCalls(msg) == Len(msg.toolCalls) > 0

\* new Set(msg.toolCalls.map(tc => tc.id))
DeclaredIds(msg) == {msg.toolCalls[i].id : i \in DOMAIN msg.toolCalls}

\* (msg as any).toolCallId || msg.toolCalls?.[0]?.id
ResponseId(msg) ==
    IF msg.toolCallId # Null THEN msg.toolCallId
    ELSE IF Len(msg.toolCalls) > 0 THEN msg.toolCalls[1].id
    ELSE Null

\* First pass: assistantToolCallMap and toolResponseMap, keyed by message id
RECURSIVE FirstPass(_, _, _, _, _)
FirstPass(msgs, i, currentAssistantId, assistantToolCallMap, toolResponseMap) ==
    IF i > Len(msgs)
    THEN [assistantToolCallMap |-> assistantToolCallMap,
          toolResponseMap      |-> toolResponseMap]
    ELSE LET msg == msgs[i] IN
         IF msg.role = "assistant" /\ HasToolCalls(msg)
         THEN FirstPass(msgs, i + 1, msg.id,
                        MapSet(assistantToolCallMap, msg.id, DeclaredIds(msg)),
                        MapSet(toolResponseMap, msg.id, {}))
         ELSE IF msg.role = "tool" /\ currentAssistantId # NoMsgId
         THEN FirstPass(msgs, i + 1, currentAssistantId, assistantToolCallMap,
                        IF ResponseId(msg) # Null
                           /\ currentAssistantId \in DOMAIN toolResponseMap
                        THEN MapSet(toolResponseMap, currentAssistantId,
                                    toolResponseMap[currentAssistantId]
                                        \cup {ResponseId(msg)})
                        ELSE toolResponseMap)
         ELSE IF msg.role \in {"user", "system"}
                 \/ (msg.role = "assistant" /\ ~HasToolCalls(msg))
         THEN FirstPass(msgs, i + 1, NoMsgId, assistantToolCallMap, toolResponseMap)
         ELSE FirstPass(msgs, i + 1, currentAssistantId, assistantToolCallMap,
                        toolResponseMap)

\* a mutant of HasAllResponses: the sizes are compared, the members are not
HasAllResponsesSizeOnly(expectedToolCalls, actualResponses) ==
    Cardinality(expectedToolCalls) = Cardinality(actualResponses)

\* hasAllResponses: same size and every expected id was answered
HasAllResponses(expectedToolCalls, actualResponses) ==
    /\ Cardinality(expectedToolCalls) = Cardinality(actualResponses)
    /\ \A id \in expectedToolCalls : id \in actualResponses

\* Second pass: the flags kept[i] of the messages pushed to validatedMessages
RECURSIVE SecondPass(_, _, _, _, _, _)
SecondPass(msgs, i, maps, skipUntilNextUserMessage, currentAssistantId, kept) ==
    IF i > Len(msgs) THEN kept
    ELSE LET msg == msgs[i] IN
         IF msg.role \in {"user", "system"}
         THEN SecondPass(msgs, i + 1, maps, FALSE, NoMsgId, Append(kept, TRUE))
         ELSE IF msg.role = "assistant" /\ HasToolCalls(msg)
         THEN IF HasAllResponses(maps.assistantToolCallMap[msg.id],
                                 maps.toolResponseMap[msg.id])
              THEN SecondPass(msgs, i + 1, maps, FALSE, msg.id, Append(kept, TRUE))
              ELSE SecondPass(msgs, i + 1, maps, TRUE, NoMsgId, Append(kept, FALSE))
         ELSE IF msg.role = "tool"
         THEN SecondPass(msgs, i + 1, maps, skipUntilNextUserMessage,
                         currentAssistantId,
                         Append(kept, ~skipUntilNextUserMessage
                                      /\ currentAssistantId # NoMsgId))
         ELSE SecondPass(msgs, i + 1, maps, skipUntilNextUserMessage, NoMsgId,
                         Append(kept, ~skipUntilNextUserMessage))

\* kept[i]: whether window row i is pushed to validatedMessages
ValidatedFlags(msgs) ==
    SecondPass(msgs, 1, FirstPass(msgs, 1, NoMsgId, <<>>, <<>>), FALSE, NoMsgId,
               <<>>)

\* validatedMessages
ValidatedMessages(msgs) == SelectSeq2(msgs, ValidatedFlags(msgs))


\* one stored row in the shape of the model API
ToLLMMessage(msg) ==
    [role         |-> msg.role,
     content      |-> IF msg.role = "assistant" /\ HasToolCalls(msg)
                      THEN (IF Falsy(msg.content) THEN NullStr ELSE msg.content)
                      ELSE (IF msg.content.kind = "null" THEN Str("")
                            ELSE msg.content),
     tool_calls   |-> IF msg.role = "assistant" /\ HasToolCalls(msg)
                      THEN [i \in DOMAIN msg.toolCalls |->
                              [id   |-> msg.toolCalls[i].id,
                               type |-> "function",
                               name |-> msg.toolCalls[i].name,
                               arguments |-> Stringify(msg.toolCalls[i].arguments)]]
                      ELSE <<>>,
     tool_call_id |-> IF msg.role = "tool" THEN ResponseId(msg) ELSE Null]

\* buildLLMContext applied to the rows of the store
buildLLMContext(msgs, conversationId, maxMessages) ==
    LET window == getRecentMessages(msgs, conversationId, maxMessages)
        valid  == ValidatedMessages(window)
    IN  [window    |-> window,
         validated |-> valid,
         out       |-> [i \in DOMAIN valid |-> ToLLMMessage(valid[i])]]

\* default of the maxMessages parameter
DefaultMaxMessages == 20


(***************************************************************************)
(* ToolExecutor                                                            *)
(***************************************************************************)

\* JavaScript values a handler returns, each a record tagged by its type
Undefined == [t |-> "undefined"]
JsNull    == [t |-> "null"]

\* value != null
NotNullish(v) == v.t \notin {"undefined", "null"}

\* error texts, held by their template and its arguments:
\*   Tool "<name>" not found             [kind "not_found", names <<name>>]
\*   Missing required parameters: a, b   [kind "missing",   names <<a, b>>]
\*   the message of what a handler threw [kind "handler",   names <<text>>]
NoError == [kind |-> "none", names |-> <<>>]
ErrNotFound(toolName) == [kind |-> "not_found", names |-> <<toolName>>]
ErrMissing(missing)   == [kind |-> "missing", names |-> missing]
ErrHandler(text)      == [kind |-> "handler", names |-> <<text>>]
ErrInsert             == [kind |-> "insert", names |-> <<>>]

\*   Unknown parameter: k               [kind "unknown",   names <<k>>]
\*   Parameter "k" should be T, got A   [kind "type",      names <<k, T, A>>]
\*   Parameter "k" must be one of: ...  [kind "enum",      names <<k>>]
ErrUnknown(key)               == [kind |-> "unknown", names |-> <<key>>]
ErrType(key, type, actualType) == [kind |-> "type", names |-> <<key, type, actualType>>]
ErrEnum(key)                  == [kind |-> "enum", names |-> <<key>>]

\* a mutant of registerTool: a registered name keeps its first descriptor
registerToolKeepFirst(tls, tool) ==
    IF tool.name \in DOMAIN tls THEN tls ELSE MapSet(tls, tool.name, tool)

\* registerTool: this.tools.set(tool.name, tool)
registerTool(tls, tool) == MapSet(tls, tool.name, tool)

\* Array.from(this.tools.values()): one entry per key of the Map (the order,
\* that of the first registrations, is not kept by the model)
RECURSIVE ToolValues(_, _)
ToolValues(tls, names) ==
    IF names = {} THEN <<>>
    ELSE LET n == CHOOSE x \in names : TRUE
         IN  <<tls[n]>> \o ToolValues(tls, names \ {n})

\* getToolDefinitions: the registered tools in the shape of the model API
getToolDefinitions(tls) ==
    LET values == ToolValues(tls, DOMAIN tls)
    IN  [i \in DOMAIN values |->
            [type        |-> "function",
             name        |-> values[i].name,
             description |-> values[i].description,
             parameters  |-> [properties |-> values[i].properties,
                              required   |-> values[i].required]]]

\* a mutant of MissingParams: only the first required parameter is checked
MissingParamsFirstOnly(tool, args) ==
    IF Len(tool.required) > 0 /\ tool.required[1] \notin DOMAIN args
    THEN <<tool.required[1]>>
    ELSE <<>>

\* tool.parameters.required.filter(param => !(param in args)); parameter
\* names are ordinary identifiers, none a member of Object.prototype
MissingParams(tool, args) ==
    SelectSeq(tool.required, LAMBDA param : param \notin DOMAIN args)

\* Argument values given to validateArguments are held by their JSON type
\* and their text String(value): [json |-> "number", s |-> "5"].
\* Array.isArray(value) ? "array" : typeof value  (typeof null is "object")
ActualType(value) ==
    CASE value.json = "array" -> "array"
      [] value.json = "null"  -> "object"
      [] OTHER                -> value.json

\* a mutant of ParamErrors: a parameter the schema does not declare is skipped
ParamErrorsKnownOnly(tool, key, value) ==
    IF key \notin DOMAIN tool.properties THEN <<>>
    ELSE LET paramDef == tool.properties[key]
         IN  (IF paramDef.type # ActualType(value)
              THEN <<ErrType(key, paramDef.type, ActualType(value))>> ELSE <<>>)
             \o (IF Len(paramDef.enum) > 0 /\ value.s \notin SeqToSet(paramDef.enum)
                 THEN <<ErrEnum(key)>> ELSE <<>>)

\* validateArguments, lines 255-275: the errors of one entry of args.  An
\* absent enum is held as the empty list.
ParamErrors(tool, key, value) ==
    IF key \notin DOMAIN tool.properties THEN <<ErrUnknown(key)>>
    ELSE LET paramDef == tool.properties[key]
         IN  (IF paramDef.type # ActualType(value)
              THEN <<ErrType(key, paramDef.type, ActualType(value))>> ELSE <<>>)
             \o (IF Len(paramDef.enum) > 0 /\ value.s \notin SeqToSet(paramDef.enum)
                 THEN <<ErrEnum(key)>> ELSE <<>>)

\* for (const [key, value] of Object.entries(args))
RECURSIVE EntryErrors(_, _, _)
EntryErrors(tool, args, keys) ==
    IF keys = {} THEN <<>>
    ELSE LET key == CHOOSE x \in keys : TRUE
         IN  ParamErrors(tool, key, args[key])
             \o EntryErrors(tool, args, keys \ {key})

\* a mutant of validateArguments: the required parameters are not checked
validateArgumentsNoRequired(tls, toolName, args) ==
    IF toolName \notin DOMAIN tls
    THEN [valid |-> FALSE, errors |-> <<ErrNotFound(toolName)>>]
    ELSE LET errors == EntryErrors(tls[toolName], args, DOMAIN args)
         IN  [valid |-> Len(errors) = 0, errors |-> errors]

\* validateArguments(toolName, args)
validateArguments(tls, toolName, args) ==
    IF toolName \notin DOMAIN tls
    THEN [valid |-> FALSE, errors |-> <<ErrNotFound(toolName)>>]
    ELSE LET tool    == tls[toolName]
             missing == MissingParams(tool, args)
             errors  == (IF Len(missing) > 0 THEN <<ErrMissing(missing)>> ELSE <<>>)
                        \o EntryErrors(tool, args, DOMAIN args)
         IN  [valid |-> Len(errors) = 0, errors |-> errors]

\* tool.handler(args, context): what the handler does with the arguments.
\* The handlers are the tools' business logic; three behaviours stand for it:
\* a pure handler that returns an object computed from its arguments, one
\* that returns nothing, one that throws.
Handler(tool, args) ==
    CASE tool.handler = "pure"    -> [raised |-> FALSE,
                                      value  |-> [t |-> "object", of |-> args],
                                      error  |-> NoError]
      [] tool.handler = "nothing" -> [raised |-> FALSE, value |-> Undefined,
                                      error  |-> NoError]
      [] tool.handler = "throws"  -> [raised |-> TRUE, value |-> Undefined,
                                      error  |-> ErrHandler("boom")]

\* a mutant of logAction: the insert's failure is thrown on to the caller
logActionRethrow(action, insertOk) ==
    [written |-> [action |-> action, stored |-> insertOk], threw |-> ~insertOk]

\* logAction: db.insert(agentActions) in a try/catch that swallows the error;
\* insertOk is whether the database accepted the row
logAction(action, insertOk) ==
    [written |-> [action |-> action, stored |-> insertOk], threw |-> FALSE]

\* the row executeTool hands to logAction
AuditRow(toolName, args, output, success, errorMessage, executionTimeMs) ==
    [actionName      |-> toolName,
     input           |-> args,
     output          |-> output,
     success         |-> success,
     errorMessage    |-> errorMessage,
     executionTimeMs |-> executionTimeMs]

\* the try block of executeTool: lookup, validation, handler, audit, return
TryBlock(tls, toolName, args, insertOk, elapsed) ==
    IF toolName \notin DOMAIN tls
    THEN [thrown |-> TRUE, error |-> ErrNotFound(toolName), audits |-> <<>>,
          invoked |-> 0]
    ELSE LET tool    == tls[toolName]
             missing == MissingParams(tool, args)
         IN  IF Len(missing) > 0
             THEN [thrown |-> TRUE, error |-> ErrMissing(missing),
                   audits |-> <<>>, invoked |-> 0]
             ELSE LET h == Handler(tool, args) IN
                  IF h.raised
                  THEN [thrown |-> TRUE, error |-> h.error, audits |-> <<>>,
                        invoked |-> 1]
                  ELSE LET log == logAction(
                                    AuditRow(toolName, args, h.value, 1, NoError,
                                             elapsed), insertOk)
                       IN  IF log.threw
                           THEN [thrown |-> TRUE, error |-> ErrInsert,
                                 audits |-> <<log.written>>, invoked |-> 1]
                           ELSE [thrown |-> FALSE, error |-> NoError,
                                 audits |-> <<log.written>>, invoked |-> 1,
                                 result |-> [success |-> TRUE, result |-> h.value,
                                             error |-> NoError,
                                             executionTimeMs |-> elapsed]]

\* a mutant of CatchBlock: an unknown tool name returns without an audit row
CatchBlockNoAuditNotFound(t, toolName, args, insertOk, elapsed) ==
    LET log == logAction(AuditRow(toolName, args, JsNull, 0, t.error, elapsed),
                         insertOk)
    IN  [threw   |-> FALSE,
         audits  |-> IF t.error.kind = "not_found" THEN t.audits
                     ELSE Append(t.audits, log.written),
         invoked |-> t.invoked,
         result  |-> [success |-> FALSE, result |-> Undefined, error |-> t.error,
                      executionTimeMs |-> elapsed]]

\* a mutant of CatchBlock: what the handler threw is thrown on after the audit
CatchBlockRethrow(t, toolName, args, insertOk, elapsed) ==
    LET log == logAction(AuditRow(toolName, args, JsNull, 0, t.error, elapsed),
                         insertOk)
    IN  [threw   |-> t.error.kind = "handler",
         audits  |-> Append(t.audits, log.written),
         invoked |-> t.invoked,
         result  |-> [success |-> FALSE, result |-> Undefined, error |-> t.error,
                      executionTimeMs |-> elapsed]]

\* the catch block of executeTool: audit the failure (output null), return
\* {success: false, error}; the result field is absent (undefined)
CatchBlock(t, toolName, args, insertOk, elapsed) ==
    LET log == logAction(AuditRow(toolName, args, JsNull, 0, t.error, elapsed),
                         insertOk)
    IN  [threw   |-> log.threw,
         audits  |-> Append(t.audits, log.written),
         invoked |-> t.invoked,
         result  |-> [success |-> FALSE, result |-> Undefined, error |-> t.error,
                      executionTimeMs |-> elapsed]]

\* executeTool(toolName, args, context): what it returns (or that it threw),
\* the audit writes it made and the number of handler invocations
executeTool(tls, toolName, args, insertOk, elapsed) ==
    LET t == TryBlock(tls, toolName, args, insertOk, elapsed)
    IN  IF t.thrown
        THEN CatchBlock(t, toolName, args, insertOk, elapsed)
        ELSE [threw |-> FALSE, audits |-> t.audits, invoked |-> t.invoked,
              result |-> t.result]

\* a mutant of executeTools: the loop goes on after a failing call
RECURSIVE executeToolsNoBreak(_, _, _, _)
executeToolsNoBreak(tls, toolCalls, insertOk, elapsed) ==
    IF toolCalls = <<>>
    THEN [threw |-> FALSE, results |-> <<>>, audits |-> <<>>, invoked |-> 0]
    ELSE LET call == Head(toolCalls)
             r    == executeTool(tls, call.name, call.arguments, insertOk, elapsed)
             rest == executeToolsNoBreak(tls, Tail(toolCalls), insertOk, elapsed)
         IN  [threw   |-> r.threw \/ rest.threw,
              results |-> <<r.result>> \o rest.results,
              audits  |-> r.audits \o rest.audits,
              invoked |-> r.invoked + rest.invoked]

\* executeTools(toolCalls, context): the calls are executed in list order,
\* each result is pushed, the loop breaks after a result with success false
RECURSIVE executeTools(_, _, _, _)
executeTools(tls, toolCalls, insertOk, elapsed) ==
    IF toolCalls = <<>>
    THEN [threw |-> FALSE, results |-> <<>>, audits |-> <<>>, invoked |-> 0]
    ELSE LET call == Head(toolCalls)
             r    == executeTool(tls, call.name, call.arguments, insertOk, elapsed)
         IN  IF r.threw
             THEN [threw |-> TRUE, results |-> <<>>, audits |-> r.audits,
                   invoked |-> r.invoked]
             ELSE IF ~r.result.success
             THEN [threw |-> FALSE, results |-> <<r.result>>,
                   audits |-> r.audits, invoked |-> r.invoked]
             ELSE LET rest == executeTools(tls, Tail(toolCalls), insertOk, elapsed)
                  IN  [threw   |-> rest.threw,
                       results |-> <<r.result>> \o rest.results,
                       audits  |-> r.audits \o rest.audits,
                       invoked |-> r.invoked + rest.invoked]

\* the rows of the audit writes that reached the table
StoredRows(audits) ==
    LET kept == SelectSeq(audits, LAMBDA a : a.stored)
    IN  [i \in DOMAIN kept |-> kept[i].action]

(***************************************************************************)
(* SpecCtx: arbitrary stored transcripts, then buildLLMContext             *)
(***************************************************************************)

\* longest transcript stored under SpecCtx
MaxLen == 4

NoCtx ==
    [called |-> FALSE, conversationId |-> Null, maxMessages |-> 0,
     window |-> <<>>, validated |-> <<>>, out |-> <<>>]

NoExec == [called |-> FALSE, op |-> "none"]

\* a stored tool-call request {id, name, arguments}
ToolCall(id) == [id |-> id, name |-> "lookup", arguments |-> [k \in {"id"} |-> "x"]]

\* tool-call lists appended under SpecCtx: none, one, two distinct, one repeated
CtxToolCallLists ==
    {<<>>, <<ToolCall("c1")>>, <<ToolCall("c1"), ToolCall("c2")>>,
     <<ToolCall("c1"), ToolCall("c1")>>}

\* the addMessage parameters appended under SpecCtx
CtxParams ==
    [conversationId : {"convA"}, role : {"user", "system"}, content : {Str("text")},
     toolCalls : {<<>>}, toolCallId : {Null}, metadata : {NoMetadata}]
    \cup
    [conversationId : {"convA"}, role : {"assistant"}, content : {Str("text")},
     toolCalls : CtxToolCallLists, toolCallId : {Null}, metadata : {NoMetadata}]
    \cup
    [conversationId : {"convA"}, role : {"tool"}, content : {Str("text")},
     toolCalls : {<<>>}, toolCallId : CallIds \cup {Null}, metadata : {NoMetadata}]
    \cup
    [conversationId : {"convA"}, role : {"tool"}, content : {Str("text")},
     toolCalls : {<<ToolCall("c1")>>}, toolCallId : {Null}, metadata : {NoMetadata}]

\* window sizes buildLLMContext is called with under SpecCtx
CtxWindows == {3, DefaultMaxMessages}

NoProc == [pc |-> "off"]

NoEnv == [clock |-> "none"]
NoLLM == [pc |-> "off"]

InitCtx ==
    /\ conversations = [c \in {"convA"} |-> [status |-> "active"]]
    /\ messages = <<>>
    /\ ctx = NoCtx
    /\ tools = <<>>
    /\ auditLog = <<>>
    /\ exec = NoExec
    /\ execCount = 0
    /\ handlerCalls = 0
    /\ proc = NoProc
    /\ env = NoEnv
    /\ llm = NoLLM
    /\ op = NoOp

\* conversationManager.addMessage(params), the database clock ticking between
\* inserts: the rows are read back in insertion order
CtxAddMessage ==
    /\ Len(messages) < MaxLen
    /\ \E params \in CtxParams :
         messages' = addMessage(messages, params, Len(messages) + 1,
                                Len(messages) + 1)
    /\ ctx' = NoCtx
    /\ UNCHANGED <<conversations, execVars, proc, env, llm, op>>

\* conversationManager.buildLLMContext(conversationId, maxMessages)
CtxBuild ==
    /\ \E maxMessages \in CtxWindows :
         LET r == buildLLMContext(messages, "convA", maxMessages)
         IN  ctx' = [called |-> TRUE, conversationId |-> "convA",
                     maxMessages |-> maxMessages, window |-> r.window,
                     validated |-> r.validated, out |-> r.out]
    /\ UNCHANGED <<storeVars, execVars, proc, env, llm, op>>

NextCtx == CtxAddMessage \/ CtxBuild

SpecCtx == InitCtx /\ [][NextCtx]_vars

(***************************************************************************)
(* Properties of buildLLMContext                                           *)
(***************************************************************************)

\* window rows j+1..k are all tool rows: nothing cleared or moved the pending
\* assistant pointer between the assistant row j and row k
OnlyToolsBetween(w, j, k) == \A x \in (j + 1)..(k - 1) : w[x].role = "tool"

\* the tool rows anchored to the assistant-with-tool-calls row j
Anchored(w, j) ==
    {k \in (j + 1)..Len(w) : w[k].role = "tool" /\ OnlyToolsBetween(w, j, k + 1)}

\* the response ids observed for row j
ObservedIds(w, j) == {ResponseId(w[k]) : k \in Anchored(w, j)} \ {Null}

IsToolCallRow(m) == m.role = "assistant" /\ HasToolCalls(m)

IncompleteGroup(w, j) ==
    IsToolCallRow(w[j]) /\ ObservedIds(w, j) # DeclaredIds(w[j])

ValidatedIds(c) == {c.validated[i].id : i \in DOMAIN c.validated}

\* C1 (transcript completeness): an assistant-with-tool-calls message whose
\* observed response ids differ from its declared ids is left out of the
\* output of buildLLMContext, together with every tool message anchored to it.
C1_IncompleteGroupDropped ==
    ctx.called =>
      \A j \in DOMAIN ctx.window :
        IncompleteGroup(ctx.window, j) =>
          /\ ctx.window[j].id \notin ValidatedIds(ctx)
          /\ \A k \in Anchored(ctx.window, j) :
               ctx.window[k].id \notin ValidatedIds(ctx)

\* C1 witness: declared {c1, c2}, only c1 answered, and other rows survive
C1_Witness ==
    /\ ctx.called
    /\ Len(ctx.out) > 0
    /\ \E j \in DOMAIN ctx.window :
         /\ IsToolCallRow(ctx.window[j])
         /\ DeclaredIds(ctx.window[j]) = {"c1", "c2"}
         /\ ObservedIds(ctx.window, j) = {"c1"}

\* number of entries of a tool_calls list that carry the id
CountCalls(tcs, id) == Cardinality({i \in DOMAIN tcs : tcs[i].id = id})

\* the emitted assistant-with-tool-calls turn that owns the emitted turn k
Owner(out, k) ==
    {j \in 1..(k - 1) : Len(out[j].tool_calls) > 0 /\ OnlyToolsBetween(out, j, k)}

\* the emitted tool turns that follow the emitted assistant turn j directly
Answers(out, j) ==
    {k \in (j + 1)..Len(out) : out[k].role = "tool" /\ OnlyToolsBetween(out, j, k + 1)}

\* C2 (protocol validity of the output): every emitted tool turn answers
\* exactly one entry of the emitted assistant turn it follows, and every
\* call id an emitted assistant turn declares is answered exactly once.
C2_OutputWellFormed ==
    ctx.called =>
      /\ \A k \in DOMAIN ctx.out :
           ctx.out[k].role = "tool" =>
             /\ ctx.out[k].tool_call_id # Null
             /\ \E j \in Owner(ctx.out, k) :
                  CountCalls(ctx.out[j].tool_calls, ctx.out[k].tool_call_id) = 1
      /\ \A j \in DOMAIN ctx.out :
           Len(ctx.out[j].tool_calls) > 0 =>
             \A i \in DOMAIN ctx.out[j].tool_calls :
               Cardinality({k \in Answers(ctx.out, j) :
                   ctx.out[k].tool_call_id = ctx.out[j].tool_calls[i].id}) = 1


(***************************************************************************)
(* SpecExec: the registry and executeTool                                  *)
(***************************************************************************)

\* executeTool calls made under SpecExec
MaxExecs == 2

ParamNames == {"id", "q"}

\* argument objects: the named parameters present, each with a value
ArgObjects == UNION {[K -> {"x"}] : K \in SUBSET ParamNames}

\* the parameter schema of the descriptors: a string with an enum, a number
ExecProperties ==
    [k \in ParamNames |->
        IF k = "id" THEN [type |-> "string", enum |-> <<"x", "y">>]
        ELSE [type |-> "number", enum |-> <<>>]]

\* tool descriptors registered under SpecExec and SpecValidate
ExecDescriptors ==
    [name : {"lookup"}, required : {<<"id", "q">>},
     handler : {"pure", "nothing", "throws"}, description : {"first"},
     properties : {ExecProperties}]
    \cup
    [name : {"lookup"}, required : {<<"id">>, <<>>}, handler : {"pure"},
     description : {"second"}, properties : {ExecProperties}]
    \cup
    [name : {"other"}, required : {<<>>}, handler : {"nothing"},
     description : {"third"}, properties : {<<>>}]

\* argument values validateArguments is called with: two strings, a number,
\* an array whose text is that of a string, null
ValidateValues ==
    {[json |-> "string", s |-> "x"], [json |-> "string", s |-> "z"],
     [json |-> "number", s |-> "5"], [json |-> "array", s |-> "x"],
     [json |-> "null", s |-> "null"]}

\* argument objects validateArguments is called with; "zz" is a name the
\* schema does not declare
ValidateArgObjects ==
    UNION {[K -> ValidateValues] : K \in SUBSET (ParamNames \cup {"zz"})}

\* tool names executeTool is called with under SpecExec
ExecNames == {"lookup", "nosuch"}

\* Date.now() - startTime, in ms, of the calls made under SpecExec: Date.now()
\* reads the wall clock, which the host may set back while the handler is
\* awaited
ExecElapsed == {-1, 3}

InitExec ==
    /\ conversations = <<>>
    /\ messages = <<>>
    /\ ctx = NoCtx
    /\ tools = <<>>
    /\ auditLog = <<>>
    /\ exec = NoExec
    /\ execCount = 0
    /\ handlerCalls = 0
    /\ proc = NoProc
    /\ env = NoEnv
    /\ llm = NoLLM
    /\ op = NoOp

\* toolExecutor.registerTool(tool)
ExecRegisterTool ==
    /\ \E tool \in ExecDescriptors :
         /\ tools' = registerTool(tools, tool)
         /\ exec' = [called |-> FALSE, op |-> "registerTool", tool |-> tool]
    /\ UNCHANGED <<storeVars, ctx, auditLog, execCount, handlerCalls, proc, env, llm, op>>

\* the record of one executeTool call and its effects on the audit table
ExecRecord(tls, toolName, args, insertOk, elapsed, log) ==
    LET r == executeTool(tls, toolName, args, insertOk, elapsed)
    IN  [called |-> TRUE, op |-> "executeTool", toolName |-> toolName,
         args |-> args,
         insertOk |-> insertOk, elapsed |-> elapsed, rowsBefore |-> Len(log),
         threw |-> r.threw, audits |-> r.audits, invoked |-> r.invoked,
         result |-> r.result]

\* toolExecutor.executeTool(toolName, args, context)
ExecExecuteTool ==
    /\ execCount < MaxExecs
    /\ \E toolName \in ExecNames, args \in ArgObjects, insertOk \in BOOLEAN,
          elapsed \in ExecElapsed :
         LET e == ExecRecord(tools, toolName, args, insertOk, elapsed, auditLog)
         IN  /\ exec' = e
             /\ auditLog' = auditLog \o StoredRows(e.audits)
             /\ handlerCalls' = handlerCalls + e.invoked
    /\ execCount' = execCount + 1
    /\ UNCHANGED <<storeVars, ctx, tools, proc, env, llm, op>>

\* toolExecutor.getToolDefinitions()
ExecGetToolDefinitions ==
    /\ exec' = [called |-> FALSE, op |-> "getToolDefinitions",
                definitions |-> getToolDefinitions(tools)]
    /\ UNCHANGED <<storeVars, ctx, tools, auditLog, execCount, handlerCalls, proc,
                   env, llm, op>>

\* toolExecutor.validateArguments(toolName, args)
ExecValidateArguments ==
    /\ \E toolName \in ExecNames, args \in ValidateArgObjects :
         exec' = [called |-> FALSE, op |-> "validateArguments",
                  toolName |-> toolName, args |-> args,
                  result |-> validateArguments(tools, toolName, args)]
    /\ UNCHANGED <<storeVars, ctx, tools, auditLog, execCount, handlerCalls, proc,
                   env, llm, op>>

NextExec == ExecRegisterTool \/ ExecExecuteTool \/ ExecGetToolDefinitions

SpecExec == InitExec /\ [][NextExec]_vars

\* SpecValidate: the registry and its dry-run check
NextValidate == ExecRegisterTool \/ ExecGetToolDefinitions \/ ExecValidateArguments

SpecValidate == InitExec /\ [][NextValidate]_vars

\* SpecBatch: the registry and the batch helper executeTools

\* calls in one list given to executeTools
MaxBatch == 3

\* the entries of the lists: {name, arguments}
BatchCalls == [name : ExecNames, arguments : {<<>>, [k \in {"id"} |-> "x"]}]

BatchLists == UNION {[1..n -> BatchCalls] : n \in 1..MaxBatch}

\* toolExecutor.executeTools(toolCalls, context), once in a behaviour; the
\* audit inserts of one batch are all accepted or all rejected
ExecExecuteTools ==
    /\ execCount = 0
    /\ \E toolCalls \in BatchLists, insertOk \in BOOLEAN, elapsed \in ExecElapsed :
         LET b == executeTools(tools, toolCalls, insertOk, elapsed)
         IN  /\ exec' = [called |-> FALSE, op |-> "executeTools",
                          toolCalls |-> toolCalls, insertOk |-> insertOk,
                          elapsed |-> elapsed, rowsBefore |-> Len(auditLog),
                          threw |-> b.threw, results |-> b.results,
                          audits |-> b.audits, invoked |-> b.invoked]
             /\ auditLog' = auditLog \o StoredRows(b.audits)
             /\ handlerCalls' = handlerCalls + b.invoked
             /\ execCount' = execCount + Len(b.results)
    /\ UNCHANGED <<storeVars, ctx, tools, proc, env, llm, op>>

NextBatch == ExecRegisterTool \/ ExecExecuteTools

SpecBatch == InitExec /\ [][NextBatch]_vars

(***************************************************************************)
(* Properties of executeTool                                               *)
(***************************************************************************)

\* the required parameter names of the called tool that the arguments lack
Lacking(e) ==
    {p \in SeqToSet(tools[e.toolName].required) : p \notin DOMAIN e.args}

Registered(e) == e.called /\ e.toolName \in DOMAIN tools

\* C5 (validation gate): a call that lacks required parameters returns
\* success=false with "Missing required parameters: <names>", the names being
\* exactly the missing ones, and the handler is not invoked.
C5_ValidationGate ==
    (Registered(exec) /\ Lacking(exec) # {}) =>
      /\ ~exec.threw
      /\ exec.result.success = FALSE
      /\ exec.result.error.kind = "missing"
      /\ SeqToSet(exec.result.error.names) = Lacking(exec)
      /\ Len(exec.result.error.names) = Cardinality(Lacking(exec))
      /\ exec.invoked = 0

\* C5 witness: two parameters required, one of them missing
C5_Witness ==
    /\ Registered(exec)
    /\ tools[exec.toolName].required = <<"id", "q">>
    /\ DOMAIN exec.args = {"id"}
    /\ exec.result.error = ErrMissing(<<"q">>)

HandlerRaised(e) ==
    /\ Registered(e)
    /\ Lacking(e) = {}
    /\ tools[e.toolName].handler = "throws"

\* C6 (failure isolation): when the handler raises, executeTool returns
\* {success:false, error: <message>} and does not throw, and it makes exactly
\* one audit write, of a row with success=0, which is the one row the audit
\* table gains when the insert is accepted.
C6_FailureIsolation ==
    HandlerRaised(exec) =>
      /\ ~exec.threw
      /\ exec.invoked = 1
      /\ exec.result.success = FALSE
      /\ exec.result.error = ErrHandler("boom")
      /\ Len(exec.audits) = 1
      /\ exec.audits[1].action.success = 0
      /\ exec.audits[1].action.errorMessage = ErrHandler("boom")
      /\ Len(auditLog) = exec.rowsBefore + (IF exec.insertOk THEN 1 ELSE 0)
      /\ exec.insertOk => auditLog[Len(auditLog)] = exec.audits[1].action

\* C6 witness: a raising handler, audited
C6_Witness ==
    /\ HandlerRaised(exec)
    /\ exec.insertOk
    /\ Len(auditLog) = 2

\* C7 (one audit write per call): every executeTool call makes exactly one
\* audit write, whose success flag and error text are those of the returned
\* result and whose output is null on failure; stored rows never change.
C7_OneAuditWrite ==
    /\ [](exec.called =>
            /\ Len(exec.audits) = 1
            /\ LET row == exec.audits[1].action IN
               /\ row.actionName = exec.toolName
               /\ row.input = exec.args
               /\ row.success = (IF exec.result.success THEN 1 ELSE 0)
               /\ row.errorMessage = exec.result.error
               /\ row.output = (IF exec.result.success THEN exec.result.result
                                ELSE JsNull)
               /\ exec.result.success <=> exec.result.error = NoError)
    /\ [][\A i \in DOMAIN auditLog :
            i \in DOMAIN auditLog' /\ auditLog'[i] = auditLog[i]]_vars

\* C7 witness: an unknown tool name, audited as a failure after another row
C7_Witness ==
    /\ exec.called
    /\ exec.toolName \notin DOMAIN tools
    /\ exec.result.error = ErrNotFound("nosuch")
    /\ exec.insertOk
    /\ Len(auditLog) = 2

\* the same call made with the other outcome of the audit insert
OtherInsert(e) == executeTool(tools, e.toolName, e.args, ~e.insertOk, e.elapsed)

\* C8 (audit failures are swallowed): executeTool never throws, and returns
\* the same success flag, result and error whether the audit insert succeeds
\* or fails.
C8_AuditFailureSwallowed ==
    exec.called =>
      /\ ~exec.threw
      /\ ~OtherInsert(exec).threw
      /\ OtherInsert(exec).result = exec.result
      /\ exec.result.success <=>
           /\ Registered(exec)
           /\ Lacking(exec) = {}
           /\ tools[exec.toolName].handler # "throws"

\* C8 witness: a successful execution whose audit insert failed
C8_Witness ==
    /\ exec.called
    /\ ~exec.insertOk
    /\ exec.result.success
    /\ Len(exec.audits) = 1
    /\ auditLog = <<>>

(***************************************************************************)
(* Properties of the registry                                              *)
(***************************************************************************)

\* the entries of a getToolDefinitions result that carry the name
Listed(definitions, name) ==
    {i \in DOMAIN definitions : definitions[i].name = name}

\* C27 (last registration wins): registerTool sets the descriptor of its name
\* and leaves every other name's descriptor alone, nothing else changes the
\* registry; executeTool runs the handler of the descriptor the registry holds
\* for the name; getToolDefinitions lists each registered name exactly once,
\* with the description and the parameter schema of that descriptor.
C27_LastRegistrationWins ==
    [][/\ exec'.op = "registerTool" =>
            /\ DOMAIN tools' = DOMAIN tools \cup {exec'.tool.name}
            /\ tools'[exec'.tool.name] = exec'.tool
            /\ \A n \in DOMAIN tools : n # exec'.tool.name => tools'[n] = tools[n]
       /\ exec'.op # "registerTool" => tools' = tools
       /\ (exec'.op = "executeTool" /\ Registered(exec') /\ Lacking(exec') = {}) =>
            LET h == Handler(tools[exec'.toolName], exec'.args)
            IN  /\ handlerCalls' = handlerCalls + 1
                /\ exec'.result.success = ~h.raised
                /\ exec'.result.result = h.value
                /\ exec'.result.error = h.error
       /\ exec'.op = "getToolDefinitions" =>
            /\ Len(exec'.definitions) = Cardinality(DOMAIN tools)
            /\ \A n \in DOMAIN tools :
                 /\ Cardinality(Listed(exec'.definitions, n)) = 1
                 /\ \A i \in Listed(exec'.definitions, n) :
                      /\ exec'.definitions[i].description = tools[n].description
                      /\ exec'.definitions[i].parameters.properties =
                           tools[n].properties
                      /\ exec'.definitions[i].parameters.required =
                           tools[n].required
      ]_vars

\* C27 witness: a name whose handler threw in an audited call was registered
\* again, and the same call then succeeded, a second name being registered
C27_Witness ==
    /\ exec.called
    /\ exec.result.success
    /\ DOMAIN tools = {"lookup", "other"}
    /\ Len(auditLog) = 2
    /\ auditLog[1].actionName = exec.toolName
    /\ auditLog[1].input = exec.args
    /\ auditLog[1].errorMessage = ErrHandler("boom")

\* what the arguments of a validateArguments call do wrong against the
\* descriptor the registry holds for the name
MissingRequired(e) ==
    \E p \in SeqToSet(tools[e.toolName].required) : p \notin DOMAIN e.args

UnknownName(e) ==
    \E k \in DOMAIN e.args : k \notin DOMAIN tools[e.toolName].properties

Declared(e) == DOMAIN e.args \cap DOMAIN tools[e.toolName].properties

TypeMismatch(e) ==
    \E k \in Declared(e) : tools[e.toolName].properties[k].type # e.args[k].json

EnumViolation(e) ==
    \E k \in Declared(e) :
        LET enum == tools[e.toolName].properties[k].enum
        IN  /\ enum # <<>>
            /\ \A i \in DOMAIN enum : enum[i] # e.args[k].s

C28_WitnessUnknownOnly ==
    /\ exec.op = "validateArguments"
    /\ exec.toolName \in DOMAIN tools
    /\ ~exec.result.valid
    /\ UnknownName(exec)
    /\ ~MissingRequired(exec) /\ ~TypeMismatch(exec) /\ ~EnumViolation(exec)

\* executeTool called with the name and the arguments of the validateArguments
\* call just made
Executed(e) == executeTool(tools, e.toolName, e.args, TRUE, 0)

MissingErrors(errors) ==
    {errors[i] : i \in {k \in DOMAIN errors : errors[k].kind = "missing"}}

\* C36 (the two gates agree): for a registered tool, arguments that
\* validateArguments finds valid make executeTool invoke the handler;
\* executeTool rejects with the missing-parameters error exactly when
\* validateArguments reports that same error; unknown names, type and enum
\* violations do not stop executeTool.
C36_GatesAgree ==
    (exec.op = "validateArguments" /\ exec.toolName \in DOMAIN tools) =>
        /\ exec.result.valid => Executed(exec).invoked = 1
        /\ Executed(exec).result.error.kind = "missing"
             <=> MissingErrors(exec.result.errors) # {}
        /\ MissingErrors(exec.result.errors) # {}
             => /\ MissingErrors(exec.result.errors) = {Executed(exec).result.error}
                /\ Executed(exec).invoked = 0
        /\ MissingErrors(exec.result.errors) = {} => Executed(exec).invoked = 1

\* C36 witness: arguments with an unknown name, a mistyped value and a value
\* outside the enum, nothing missing: invalid for validateArguments, run by
\* executeTool
C36_Witness ==
    /\ exec.op = "validateArguments"
    /\ exec.toolName \in DOMAIN tools
    /\ tools[exec.toolName].required = <<"id", "q">>
    /\ ~exec.result.valid
    /\ UnknownName(exec) /\ TypeMismatch(exec) /\ EnumViolation(exec)
    /\ ~MissingRequired(exec)
    /\ Executed(exec).invoked = 1

\* the result of the i-th call of the batch executed on its own
Alone(e, i) ==
    executeTool(tools, e.toolCalls[i].name, e.toolCalls[i].arguments,
                e.insertOk, e.elapsed)

\* C38 (the batch stops at the first failure): executeTools executes its
\* calls in list order and stops after the first failing one: the result
\* list has one entry per executed call, only its last entry can have
\* success=false, and no call after a failed one is executed or audited.
C38_BatchStopsAtFirstFailure ==
    [][exec'.op = "executeTools" =>
         LET n == Len(exec'.results)
         IN  /\ ~exec'.threw
             /\ n <= Len(exec'.toolCalls)
             /\ \A i \in 1..n : exec'.results[i] = Alone(exec', i).result
             /\ \A i \in 1..(n - 1) : exec'.results[i].success
             /\ n < Len(exec'.toolCalls) => ~exec'.results[n].success
             /\ Len(exec'.audits) = n
             /\ \A i \in 1..n :
                  /\ exec'.audits[i].action.actionName = exec'.toolCalls[i].name
                  /\ exec'.audits[i].action.input = exec'.toolCalls[i].arguments
             /\ Len(auditLog') = Len(auditLog) + (IF exec'.insertOk THEN n ELSE 0)
             /\ handlerCalls' =
                  handlerCalls + Cardinality({i \in 1..n : Alone(exec', i).invoked = 1})
      ]_vars

\* C38 witness: a list of three calls whose second lacks a required
\* parameter; two results, two audit rows, one handler run, the third call
\* (which would succeed on its own) not executed
C38_Witness ==
    /\ exec.op = "executeTools"
    /\ Len(exec.toolCalls) = 3
    /\ Len(exec.results) = 2
    /\ exec.results[1].success
    /\ ~exec.results[2].success
    /\ exec.results[2].error = ErrMissing(<<"id">>)
    /\ Alone(exec, 3).result.success
    /\ Len(auditLog) = 2
    /\ handlerCalls = 1

\* two executeTool calls in a row with the same name and arguments, on a
\* registered pure handler the arguments are valid for (no registration lies
\* between two calls in a row)
RepeatedPureCall ==
    /\ exec.op = "executeTool"
    /\ exec'.op = "executeTool"
    /\ execCount' = execCount + 1
    /\ exec'.toolName = exec.toolName
    /\ exec'.args = exec.args
    /\ Registered(exec')
    /\ Lacking(exec') = {}
    /\ tools[exec'.toolName].handler = "pure"

\* the repeated call returns what the first returned, whatever happened to
\* either call's audit insert and whatever the audit table holds
C29_SameResult ==
    [][RepeatedPureCall =>
         /\ exec.result.success /\ exec'.result.success
         /\ exec'.result.result = exec.result.result
      ]_vars

\* C29 (idempotent shape): two executions with the same name and the same
\* valid arguments on a pure handler return success=true with the same
\* result, independent of earlier executions and of the audit table, and
\* every execution returns a non-negative executionTimeMs.
C29_IdempotentShape ==
    [][/\ RepeatedPureCall =>
            /\ exec.result.success /\ exec'.result.success
            /\ exec'.result.result = exec.result.result
       /\ exec'.op = "executeTool" => exec'.result.executionTimeMs >= 0
      ]_vars

(***************************************************************************)
(* AgentOrchestrator.processMessage                                        *)
(***************************************************************************)

MAX_TOOL_ROUNDS == 5

\* the fallback content of the final assistant message
Apology == Str("I apologize, but I was unable to generate a response.")

\* a text that JSON.parse rejects
BadJson == Str("{oops")

\* {} and the fallback objects built around unparsable arguments
EmptyObject == <<>>
RawObject(text) == [k \in {"raw"} |-> text]

\* parsedArgs of toolCallsForDb: JSON.parse(arguments), {raw: arguments} when
\* the text does not parse
ParseArgsForDb(arguments) ==
    LET r == JsonParse(arguments)
    IN  IF r.ok THEN r.value ELSE RawObject(arguments)

\* a mutant of ParseArgsForExec: the fallback of toolCallsForDb is used
ParseArgsForExecRaw(arguments) == ParseArgsForDb(arguments)

\* args handed to executeTool: JSON.parse(arguments), {} when it does not parse
ParseArgsForExec(arguments) ==
    LET r == JsonParse(arguments)
    IN  IF r.ok THEN r.value ELSE EmptyObject

\* a mutant of ToolCallsForDb: only the first requested call is recorded
ToolCallsForDbFirstOnly(tool_calls) ==
    [i \in {1} |->
        [id        |-> tool_calls[i].id,
         name      |-> tool_calls[i].name,
         arguments |-> ParseArgsForDb(tool_calls[i].arguments)]]

\* toolCallsForDb: {id, name, arguments} of every requested call
ToolCallsForDb(tool_calls) ==
    [i \in DOMAIN tool_calls |->
        [id        |-> tool_calls[i].id,
         name      |-> tool_calls[i].name,
         arguments |-> ParseArgsForDb(tool_calls[i].arguments)]]

\* toolContent: the JSON text of result.result, or of the fixed error object
\* {error: "Tool returned no result"} when the result is null or undefined
\* (error texts are held as records, as the executor's are)
ErrNoResult == [kind |-> "no_result", names |-> <<>>]

\* a mutant of ToolContent: the result is serialized whatever it is
ToolContentRaw(result) ==
    IF NotNullish(result.result) THEN Stringify(result.result) ELSE NullStr

ToolContent(result) ==
    IF NotNullish(result.result)
    THEN Stringify(result.result)
    ELSE Stringify([t |-> "object", of |-> [k \in {"error"} |-> ErrNoResult]])

\* content of the final assistant message: responseContent || apology
FinalContent(responseContent) ==
    IF Falsy(responseContent) THEN Apology ELSE responseContent

\* the in-memory messages array before the loop: the system prompt, then the
\* history, each entry keeping role, content, tool_calls and tool_call_id
SystemMessage ==
    [role |-> "system", content |-> Str("system prompt"), tool_calls |-> <<>>,
     tool_call_id |-> Null]

InitialLLMMessages(history) ==
    <<SystemMessage>> \o
    [i \in DOMAIN history |->
        [role         |-> history[i].role,
         content      |-> IF history[i].tool_calls # <<>>
                             /\ Falsy(history[i].content)
                          THEN NullStr ELSE history[i].content,
         tool_calls   |-> history[i].tool_calls,
         tool_call_id |-> history[i].tool_call_id]]

\* the entries pushed in a tool round
AssistantLLMMessage(content, tool_calls) ==
    [role |-> "assistant",
     content |-> IF Falsy(content) THEN NullStr ELSE content,
     tool_calls |-> tool_calls, tool_call_id |-> Null]

ToolLLMMessage(toolContent, id) ==
    [role |-> "tool", content |-> toolContent, tool_calls |-> <<>>,
     tool_call_id |-> id]

\* the text extracted from message.content: the string itself, "" for null
MessageText(content) == IF content.kind = "null" THEN Str("") ELSE content

\* a mutant of ToolCallAt: the tool calls are taken from the last to the first
ToolCallAtReversed(tool_calls, idx) == tool_calls[Len(tool_calls) + 1 - idx]

\* for (const toolCall of assistantMessage.tool_calls): the idx-th iteration
ToolCallAt(tool_calls, idx) == tool_calls[idx]

\* a mutant of PushToolUsed: a tool name is listed once however often it ran
PushToolUsedOnce(toolsUsed, name) ==
    IF name \in SeqToSet(toolsUsed) THEN toolsUsed ELSE Append(toolsUsed, name)

\* toolsUsed.push(toolCall.function.name)
PushToolUsed(toolsUsed, name) == Append(toolsUsed, name)

\* a mutant of OnToolCalls: the tools run without the assistant message saved
OnToolCallsSkipSave == "delay"

\* where processMessage continues when the response carries tool calls: the
\* assistant message is saved, then the delay, then the tools
OnToolCalls == "saveAssistant"

\* a mutant of OnInvalidResponse: the invalid response is passed over, as the
\* forced call does
OnInvalidResponseLenient == "saveFinal"

\* where processMessage continues when a tool-enabled response has no choices
\* or no message: throw new Error("Invalid LLM response: ...")
OnInvalidResponse == "thrown"

\* a mutant of AfterRound: the last round is not followed by a forced call
AfterRoundNoForce(round) ==
    IF round + 1 < MAX_TOOL_ROUNDS THEN "callLLM" ELSE "saveFinal"

\* where processMessage continues once the tools of a round are done: the
\* forced tools-disabled call after the last round, else the next round (the
\* loop ends when round reaches MAX_TOOL_ROUNDS)
AfterRound(round) ==
    IF round = MAX_TOOL_ROUNDS - 1 THEN "forceFinal"
    ELSE IF round + 1 < MAX_TOOL_ROUNDS THEN "callLLM" ELSE "saveFinal"

\* the message field of the returned AgentResponse
ReturnedMessage(responseContent) == responseContent

NoResponse == [returned |-> FALSE]

\* the AgentResponse processMessage returns
AgentResponse(conversationId, responseContent, toolCallResults, metadata) ==
    [returned       |-> TRUE,
     conversationId |-> conversationId,
     message        |-> ReturnedMessage(responseContent),
     toolCalls      |-> toolCallResults,
     metadata       |-> metadata]

\* the merge {...existingContext, ...context} of updateContext
MergeContext(existing, context) ==
    [k \in DOMAIN existing \cup DOMAIN context |->
        IF k \in DOMAIN context THEN context[k] ELSE existing[k]]

(***************************************************************************)
(* invokeLLM (llm.ts): the transport attempts of one model call            *)
(***************************************************************************)

MAX_RETRIES == 3
RETRY_DELAY_MS == 1000

\* number of invokeLLM calls made in one behaviour of SpecLLM
MaxLLMCalls == 2

\* what one fetch attempt meets: a 200 response with a JSON, an HTML or
\* another body; a response that is not ok, with its status and error text;
\* a rejected fetch, with the message of the error.  Texts are held as the
\* set of the substrings that matter which they contain.
FetchOutcomes ==
    {[kind |-> k, status |-> "200", text |-> {}]
        : k \in {"json", "html", "garbage"}}
    \cup {[kind |-> "status", status |-> st, text |-> {}]
            : st \in {"502", "503", "504", "400"}}
    \cup {[kind |-> "status", status |-> "400", text |-> {"Failed to parse"}]}
    \cup {[kind |-> "reject", status |-> "none", text |-> {m}]
            : m \in {"ECONNRESET", "ETIMEDOUT", "fetch failed"}}

\* the message of the error thrown in the try block for a failed attempt
ErrorMessage(o) ==
    CASE o.kind = "html"    -> {"HTML instead of JSON"}
      [] o.kind = "garbage" -> {"Failed to parse"}
      [] o.kind = "status"  -> {"LLM invoke failed", o.status} \cup o.text
      [] o.kind = "reject"  -> o.text
      [] OTHER              -> {}

RetryMarkers ==
    {"HTML instead of JSON", "Failed to parse", "502", "503", "504",
     "ECONNRESET", "ETIMEDOUT"}

\* a mutant of IsRetryable: every failure is retried
IsRetryableAlways(message) == TRUE

\* isRetryable: the message includes one of the markers
IsRetryable(message) == message \cap RetryMarkers # {}

\* a mutant of CanRetry: one more attempt is allowed
CanRetryOnceMore(attempt) == attempt <= MAX_RETRIES

\* attempt < MAX_RETRIES
CanRetry(attempt) == attempt < MAX_RETRIES

\* sleep(RETRY_DELAY_MS * attempt)
BackoffMs(attempt) == RETRY_DELAY_MS * attempt

IdleLLM(calls) ==
    [pc |-> "idle", calls |-> calls, attempt |-> 0, log |-> <<>>,
     sleeps |-> <<>>, lastError |-> {}, result |-> "none"]

(***************************************************************************)
(* Spec: processMessage driving the store and the executor                 *)
(***************************************************************************)

\* number of departures from the nominal run that the model and the tools
\* may make in one behaviour (an error, an empty or invalid response, a
\* failing tool call, a second tool call in a round)
MaxFaults == 2

Procs == {"req1"}

\* the tools registered by the constructor, by behaviour: one that requires
\* a parameter and returns an object, one that returns nothing, one that throws
OrchTools ==
    {[name |-> "lookup", required |-> <<"id">>, handler |-> "pure"],
     [name |-> "empty",  required |-> <<>>,     handler |-> "nothing"],
     [name |-> "crash",  required |-> <<>>,     handler |-> "throws"]}

OrchRegistry == [n \in {t.name : t \in OrchTools} |->
                    CHOOSE t \in OrchTools : t.name = n]

\* requests: no conversation id, a stored one, an unknown one; with or
\* without a context; with or without a project id
Requests ==
    [conversationId : {Null, "convA", "convX"}, hasContext : BOOLEAN,
     hasProject : BOOLEAN, message : {"hello"}]

RequestContext == [k \in {"workflowStage"} |-> "review"]

\* environments: the database clock has second precision, so successive
\* inserts get distinct timestamps ("ticking") or the same one ("frozen");
\* the uuids of successive rows ascend or descend; the messages table has the
\* FOREIGN KEY of the migration or, created from schema.ts (which declares no
\* reference), has none
Environments ==
    [clock : {"ticking", "frozen"}, uuid : {"ascending", "descending"},
     faults : {MaxFaults}, foreignKey : BOOLEAN]

\* number of message rows inserted so far, the removed ones included
Inserted(msgs) == Len(msgs) + op.deleted

\* createdAt (defaultNow) and id (uuidv4) of the next inserted message row
InsertTime(e, msgs) == IF e.clock = "ticking" THEN Inserted(msgs) + 1 ELSE 1
InsertUuid(e, msgs) ==
    IF e.uuid = "ascending" THEN Inserted(msgs) + 1 ELSE 0 - (Inserted(msgs) + 1)

\* the insert of addMessage under the environment e
Insert(e, msgs, params) ==
    addMessage(msgs, params, InsertUuid(e, msgs), InsertTime(e, msgs))

\* ids of the tool calls the model issues, by round and position
RoundCallIds ==
    << <<"r1a", "r1b">>, <<"r2a", "r2b">>, <<"r3a", "r3b">>,
       <<"r4a", "r4b">>, <<"r5a", "r5b">> >>

\* ids of the tool calls the model issues to a request that was sent again
RetryCallIds ==
    << <<"s1a", "s1b">>, <<"s2a", "s2b">>, <<"s3a", "s3b">>,
       <<"s4a", "s4b">>, <<"s5a", "s5b">> >>

IssuedIds(attempt, round) ==
    IF attempt = 1 THEN RoundCallIds[round + 1] ELSE RetryCallIds[round + 1]

\* the tool calls a response may carry: the nominal one and the failing ones
CallKinds == {"nominal", "missing", "badjson", "empty", "crash", "nosuch"}

LLMToolCall(id, kind) ==
    [id        |-> id,
     name      |-> CASE kind \in {"nominal", "missing", "badjson"} -> "lookup"
                     [] kind = "empty"  -> "empty"
                     [] kind = "crash"  -> "crash"
                     [] kind = "nosuch" -> "nosuch",
     arguments |-> CASE kind = "nominal" -> Stringify([k \in {"id"} |-> "x"])
                     [] kind = "badjson" -> BadJson
                     [] OTHER            -> Stringify(EmptyObject)]

\* responses of invokeLLM, with the number of departures each one costs:
\* an error thrown, a response without choices or without a message, a text
\* (possibly empty or null), one or two tool calls
LLMFailures ==
    {[kind |-> k, content |-> NullStr, calls |-> <<>>, usage |-> 0, cost |-> 1]
        : k \in {"throw", "no_choices", "no_message"}}
    \cup {[kind |-> k, content |-> NullStr, calls |-> <<>>, usage |-> 1,
           cost |-> 1] : k \in {"no_choices", "no_message"}}

LLMTexts ==
    {[kind |-> "message", content |-> Str("answer"), calls |-> <<>>,
      usage |-> 1, cost |-> 0],
     [kind |-> "message", content |-> Str(""), calls |-> <<>>,
      usage |-> 1, cost |-> 1],
     [kind |-> "message", content |-> NullStr, calls |-> <<>>,
      usage |-> 0, cost |-> 1]}

LLMCallLists(ids) ==
    {<<LLMToolCall(ids[1], k)>> : k \in CallKinds}
    \cup {<<LLMToolCall(ids[1], k), LLMToolCall(ids[2], "nominal")>>
             : k \in {"nominal", "crash", "badjson"}}

CallsCost(calls) ==
    (Len(calls) - 1)
    + Cardinality({i \in DOMAIN calls :
                      calls[i] # LLMToolCall(calls[i].id, "nominal")})

LLMToolRequests(ids) ==
    {[kind |-> "message", content |-> NullStr, calls |-> c, usage |-> 1,
      cost |-> CallsCost(c)] : c \in LLMCallLists(ids)}

\* the local state of a processMessage activation at its start
InitProc(request) ==
    [pc              |-> "start",
     request         |-> request,
     conversationId  |-> Null,
     round           |-> 0,
     calls           |-> <<>>,      \* assistantMessage.tool_calls
     idx             |-> 0,         \* position of toolCall in the for loop
     messageContent  |-> Str(""),
     usage           |-> 0,         \* llmResponse.usage.total_tokens
     toolContent     |-> Str(""),
     llmMessages     |-> <<>>,      \* the in-memory messages array
     responseContent |-> Str(""),
     toolsUsed       |-> <<>>,
     toolCallResults |-> <<>>,
     totalTokens     |-> 0,
     response        |-> NoResponse,
     error           |-> "none",
     modelContent    |-> NullStr,   \* ghost: content of the last response
     reported        |-> 0,         \* ghost: tokens reported by the responses
     interrupted     |-> {},        \* ghost: call ids of a group cut short
     attempt         |-> 1,         \* ghost: 1, or 2 for a request sent again
     base            |-> 0,         \* ghost: rows stored before the activation
     events          |-> <<>>]      \* ghost: the steps taken, in order

Event(e, round, idx) == [e |-> e, round |-> round, idx |-> idx]

\* processMessage rejects with the error
Throw(p, error) == [proc[p] EXCEPT !.pc = "thrown", !.error = error]

\* the foreign key is consulted by the inserts of a request only when its
\* conversation is not stored: the table without it is explored for the
\* requests that supply an unknown conversation id
ForeignKeyMatters(request) == request.conversationId = "convX"

InitOf(requests, environments) ==
    /\ conversations =
         [c \in {"convA"} |->
             [status |-> "active", context |-> [k \in {"currentPage"} |-> "home"]]]
    /\ messages = <<>>
    /\ ctx = NoCtx
    /\ tools = OrchRegistry
    /\ auditLog = <<>>
    /\ exec = NoExec
    /\ execCount = 0
    /\ handlerCalls = 0
    /\ proc \in [Procs -> {InitProc(r) : r \in requests}]
    /\ env \in environments
    /\ \A p \in Procs : ForeignKeyMatters(proc[p].request) \/ env.foreignKey
    /\ llm = IdleLLM(0)
    /\ op = NoOp

Init == InitOf(Requests, Environments)

\* the control flow of processMessage reads neither timestamps nor ids: for
\* termination one clock and one uuid order are explored
InitFair ==
    InitOf({r \in Requests : r.hasContext},
           {e \in Environments : e.clock = "ticking" /\ e.uuid = "ascending"})

\* lines 83-91: get or create the conversation. createConversation inserts a
\* row with projectId ?? null, which the NOT NULL column rejects
PmStart(p) ==
    /\ proc[p].pc = "start"
    /\ LET req  == proc[p].request
           next == IF req.hasContext THEN "updateContext" ELSE "addUser"
       IN  IF req.conversationId # Null
           THEN /\ proc' = [proc EXCEPT ![p].conversationId = req.conversationId,
                                        ![p].pc = next]
                /\ UNCHANGED conversations
           ELSE IF req.hasProject
                THEN /\ conversations' =
                          MapSet(conversations, "convNew",
                                 [status  |-> "active",
                                  context |-> IF req.hasContext
                                              THEN RequestContext ELSE <<>>])
                     /\ proc' = [proc EXCEPT ![p].conversationId = "convNew",
                                             ![p].pc = next]
                ELSE /\ proc' = [proc EXCEPT ![p] = Throw(p, "insert rejected")]
                     /\ UNCHANGED conversations
    /\ UNCHANGED <<messages, ctx, execVars, env, llm, op>>

\* lines 94-96: updateContext, which throws for an unknown conversation
PmUpdateContext(p) ==
    /\ proc[p].pc = "updateContext"
    /\ LET c == proc[p].conversationId IN
       IF c \notin DOMAIN conversations
       THEN /\ proc' = [proc EXCEPT ![p] = Throw(p, "not found")]
            /\ UNCHANGED conversations
       ELSE /\ conversations' =
                 [conversations EXCEPT
                    ![c].context = MergeContext(@, RequestContext)]
            /\ proc' = [proc EXCEPT ![p].pc = "addUser"]
    /\ UNCHANGED <<messages, ctx, execVars, env, llm, op>>

\* a mutant of CanInsert: addMessage looks the conversation up before its insert
CanInsertChecked(p) == proc[p].conversationId \in DOMAIN conversations

\* the insert of addMessage in processMessage: addMessage itself checks
\* nothing; where the table has the FOREIGN KEY on conversation_id the row
\* is rejected when the conversation is not stored
CanInsert(p) ==
    env.foreignKey => proc[p].conversationId \in DOMAIN conversations

\* lines 99-103: the user message is appended
PmAddUser(p) ==
    /\ proc[p].pc = "addUser"
    /\ IF CanInsert(p)
       THEN /\ messages' =
                 Insert(env, messages,
                        [conversationId |-> proc[p].conversationId,
                         role |-> "user",
                         content |-> Str(proc[p].request.message),
                         toolCalls |-> <<>>, toolCallId |-> Null,
                         metadata |-> NoMetadata])
            /\ proc' = [proc EXCEPT ![p].pc = "buildHistory"]
       ELSE /\ proc' = [proc EXCEPT ![p] = Throw(p, "insert rejected")]
            /\ UNCHANGED messages
    /\ UNCHANGED <<conversations, ctx, execVars, env, llm, op>>

\* line 106: history = buildLLMContext(conversationId)
PmBuildHistory(p) ==
    /\ proc[p].pc = "buildHistory"
    /\ LET r == buildLLMContext(messages, proc[p].conversationId,
                                DefaultMaxMessages)
       IN  ctx' = [called |-> TRUE, conversationId |-> proc[p].conversationId,
                   maxMessages |-> DefaultMaxMessages, window |-> r.window,
                   validated |-> r.validated, out |-> r.out]
    /\ proc' = [proc EXCEPT
                  ![p].pc = "callLLM",
                  ![p].llmMessages =
                      InitialLLMMessages(
                          buildLLMContext(messages, proc[p].conversationId,
                                          DefaultMaxMessages).out)]
    /\ UNCHANGED <<storeVars, execVars, env, llm, op>>

\* lines 174-213: invokeLLM with the tools, token accounting, validation of
\* the response, and the branch on its tool calls
PmCallLLM(p) ==
    /\ proc[p].pc = "callLLM"
    /\ proc[p].round < MAX_TOOL_ROUNDS
    /\ \E resp \in LLMFailures \cup LLMTexts
                    \cup LLMToolRequests(IssuedIds(proc[p].attempt,
                                                    proc[p].round)) :
         /\ resp.cost <= env.faults
         /\ env' = [env EXCEPT !.faults = @ - resp.cost]
         /\ LET ev   == Append(proc[p].events,
                               Event("llm", proc[p].round, Len(resp.calls)))
                seen == [proc[p] EXCEPT !.events = ev,
                                        !.reported = @ + resp.usage,
                                        !.modelContent = resp.content]
            IN  proc' = [proc EXCEPT ![p] =
                  CASE resp.kind = "throw" ->
                         [seen EXCEPT !.pc = "thrown", !.error = "llm error"]
                    [] resp.kind = "no_choices" ->
                         [seen EXCEPT !.totalTokens = @ + resp.usage,
                                      !.pc = OnInvalidResponse,
                                      !.error = "missing choices array"]
                    [] resp.kind = "no_message" ->
                         [seen EXCEPT !.totalTokens = @ + resp.usage,
                                      !.pc = OnInvalidResponse,
                                      !.error = "missing message in choices[0]"]
                    [] resp.kind = "message" /\ resp.calls = <<>> ->
                         [seen EXCEPT !.totalTokens = @ + resp.usage,
                                      !.responseContent =
                                          MessageText(resp.content),
                                      !.pc = "saveFinal"]
                    [] OTHER ->
                         [seen EXCEPT !.totalTokens = @ + resp.usage,
                                      !.usage = resp.usage,
                                      !.messageContent =
                                          MessageText(resp.content),
                                      !.calls = resp.calls,
                                      !.llmMessages =
                                          Append(@, AssistantLLMMessage(
                                                      resp.content, resp.calls)),
                                      !.pc = OnToolCalls]]
    /\ UNCHANGED <<storeVars, ctx, execVars, llm, op>>

\* lines 226-252: the assistant message with its tool calls is appended
PmSaveAssistant(p) ==
    /\ proc[p].pc = "saveAssistant"
    /\ IF CanInsert(p)
       THEN /\ messages' =
                 Insert(env, messages,
                        [conversationId |-> proc[p].conversationId,
                         role |-> "assistant",
                         content |-> proc[p].messageContent,
                         toolCalls |-> ToolCallsForDb(proc[p].calls),
                         toolCallId |-> Null,
                         metadata |-> Metadata(proc[p].usage)])
            /\ proc' = [proc EXCEPT
                          ![p].pc = "delay",
                          ![p].events =
                              Append(@, Event("saveAssistant", proc[p].round, 0))]
       ELSE /\ proc' = [proc EXCEPT ![p] = Throw(p, "insert rejected")]
            /\ UNCHANGED messages
    /\ UNCHANGED <<conversations, ctx, execVars, env, llm, op>>

\* line 255: the 100 ms delay; the for loop over the tool calls starts
PmDelay(p) ==
    /\ proc[p].pc = "delay"
    /\ proc' = [proc EXCEPT ![p].pc = "execTool", ![p].idx = 1]
    /\ UNCHANGED <<storeVars, ctx, execVars, env, llm, op>>

\* lines 258-292: the arguments are parsed, the tool is executed (its audit
\* insert is accepted only with a project id), the result is recorded
PmExecTool(p) ==
    /\ proc[p].pc = "execTool"
    /\ LET toolCall == ToolCallAt(proc[p].calls, proc[p].idx)
           args     == ParseArgsForExec(toolCall.arguments)
           e        == ExecRecord(tools, toolCall.name, args,
                                  proc[p].request.hasProject, 0, auditLog)
           ev       == Append(proc[p].events,
                              Event("exec", proc[p].round, proc[p].idx))
       IN  /\ exec' = e
           /\ auditLog' = auditLog \o StoredRows(e.audits)
           /\ handlerCalls' = handlerCalls + e.invoked
           /\ proc' = [proc EXCEPT ![p] =
                IF e.threw
                THEN [proc[p] EXCEPT !.pc = "thrown", !.error = "executeTool",
                                     !.events = ev]
                ELSE [proc[p] EXCEPT
                        !.toolsUsed = PushToolUsed(@, toolCall.name),
                        !.toolCallResults =
                            Append(@, [id        |-> toolCall.id,
                                       name      |-> toolCall.name,
                                       arguments |-> args,
                                       result    |-> e.result.result]),
                        !.toolContent = ToolContent(e.result),
                        !.llmMessages =
                            Append(@, ToolLLMMessage(ToolContent(e.result),
                                                     toolCall.id)),
                        !.events = ev,
                        !.pc = "saveTool"]]
    /\ execCount' = execCount + 1
    /\ UNCHANGED <<storeVars, ctx, tools, env, llm, op>>

\* lines 295-301 and the loop ends: the tool response is appended; then the
\* next tool call, or the end of the round
PmSaveTool(p) ==
    /\ proc[p].pc = "saveTool"
    /\ LET toolCall == ToolCallAt(proc[p].calls, proc[p].idx) IN
       IF CanInsert(p)
       THEN /\ messages' =
                 Insert(env, messages,
                        [conversationId |-> proc[p].conversationId,
                         role |-> "tool",
                         content |-> proc[p].toolContent,
                         toolCalls |-> <<>>,
                         toolCallId |-> toolCall.id,
                         metadata |-> NoMetadata])
            /\ LET ev == Append(proc[p].events,
                                Event("saveTool", proc[p].round, proc[p].idx))
               IN  proc' = [proc EXCEPT ![p] =
                     IF proc[p].idx < Len(proc[p].calls)
                     THEN [proc[p] EXCEPT !.idx = @ + 1, !.pc = "execTool",
                                          !.events = ev]
                     ELSE IF AfterRound(proc[p].round) = "forceFinal"
                          THEN [proc[p] EXCEPT !.pc = "forceFinal",
                                               !.events = ev]
                          ELSE [proc[p] EXCEPT !.round = @ + 1,
                                               !.pc = AfterRound(proc[p].round),
                                               !.events = ev]]
       ELSE /\ proc' = [proc EXCEPT ![p] = Throw(p, "insert rejected")]
            /\ UNCHANGED messages
    /\ UNCHANGED <<conversations, ctx, execVars, env, llm, op>>

\* responses of the forced call: an error, an invalid response, a text
ForcedResponses == LLMFailures \cup LLMTexts

\* lines 304-320: the forced call without tools; its text is taken only from
\* a response that has choices[0].message, and the loop ends
PmForceFinal(p) ==
    /\ proc[p].pc = "forceFinal"
    /\ \E resp \in ForcedResponses :
         /\ resp.cost <= env.faults
         /\ env' = [env EXCEPT !.faults = @ - resp.cost]
         /\ LET ev   == Append(proc[p].events,
                               Event(IF resp.kind \in {"no_choices", "no_message"}
                                     THEN "forcedInvalid" ELSE "forced",
                                     proc[p].round, 0))
                seen == [proc[p] EXCEPT !.events = ev, !.round = @ + 1,
                                        !.reported = @ + resp.usage,
                                        !.modelContent = resp.content]
            IN  proc' = [proc EXCEPT ![p] =
                  CASE resp.kind = "throw" ->
                         [seen EXCEPT !.pc = "thrown", !.error = "llm error"]
                    [] resp.kind = "message" ->
                         [seen EXCEPT !.responseContent =
                                          MessageText(resp.content),
                                      !.totalTokens = @ + resp.usage,
                                      !.pc = "saveFinal"]
                    [] OTHER -> [seen EXCEPT !.pc = "saveFinal"]]
    /\ UNCHANGED <<storeVars, ctx, execVars, llm, op>>

\* lines 324-361: the final assistant message is appended and the response
\* is returned
PmSaveFinal(p) ==
    /\ proc[p].pc = "saveFinal"
    /\ IF CanInsert(p)
       THEN /\ messages' =
                 Insert(env, messages,
                        [conversationId |-> proc[p].conversationId,
                         role |-> "assistant",
                         content |-> FinalContent(proc[p].responseContent),
                         toolCalls |-> <<>>, toolCallId |-> Null,
                         metadata |-> Metadata(proc[p].totalTokens)])
            /\ proc' = [proc EXCEPT
                          ![p].pc = "returned",
                          ![p].response =
                              AgentResponse(proc[p].conversationId,
                                            proc[p].responseContent,
                                            proc[p].toolCallResults,
                                            [tokens |-> proc[p].totalTokens,
                                             toolsUsed |-> proc[p].toolsUsed])]
       ELSE /\ proc' = [proc EXCEPT ![p] = Throw(p, "insert rejected")]
            /\ UNCHANGED messages
    /\ UNCHANGED <<conversations, ctx, execVars, env, llm, op>>

Next ==
    \E p \in Procs :
        \/ PmStart(p)
        \/ PmUpdateContext(p)
        \/ PmAddUser(p)
        \/ PmBuildHistory(p)
        \/ PmCallLLM(p)
        \/ PmSaveAssistant(p)
        \/ PmDelay(p)
        \/ PmExecTool(p)
        \/ PmSaveTool(p)
        \/ PmForceFinal(p)
        \/ PmSaveFinal(p)

Spec == Init /\ [][Next]_vars

\* every model call, tool execution and database operation returns
FairSpec == InitFair /\ [][Next]_vars /\ WF_vars(Next)

(***************************************************************************)
(* SpecCrash: processMessage stopped within a tool round, the request then *)
(* sent again on the same conversation                                     *)
(***************************************************************************)

\* the process stops between two persistence steps of a tool round: after
\* the assistant message was appended, or after some of the tool responses
PmCrash(p) ==
    /\ proc[p].pc \in {"delay", "execTool", "saveTool"}
    /\ proc[p].attempt = 1
    /\ env.faults >= 1
    /\ env' = [env EXCEPT !.faults = @ - 1]
    /\ proc' = [proc EXCEPT
                  ![p].pc = "crashed",
                  ![p].interrupted =
                      {proc[p].calls[i].id : i \in DOMAIN proc[p].calls}]
    /\ UNCHANGED <<storeVars, ctx, execVars, llm, op>>

\* the client sends the request again on the same conversation: a new
\* activation of processMessage, with rows already stored
PmRetry(p) ==
    /\ proc[p].pc = "crashed"
    /\ proc' = [proc EXCEPT ![p] =
                  [InitProc([proc[p].request EXCEPT
                               !.conversationId = proc[p].conversationId])
                     EXCEPT !.attempt = 2,
                            !.base = Len(messages),
                            !.interrupted = proc[p].interrupted]]
    /\ UNCHANGED <<storeVars, ctx, execVars, env, llm, op>>

InitCrash ==
    InitOf({r \in Requests : /\ r.conversationId = "convA"
                             /\ r.hasContext /\ r.hasProject},
           Environments)

NextCrash == Next \/ \E p \in Procs : PmCrash(p) \/ PmRetry(p)

SpecCrash == InitCrash /\ [][NextCrash]_vars

(***************************************************************************)
(* Properties of processMessage                                            *)
(***************************************************************************)

\* positions in the event log of the tool-enabled and of the forced model calls
ToolEnabledCalls(p) ==
    {i \in DOMAIN proc[p].events : proc[p].events[i].e = "llm"}
ForcedCalls(p) ==
    {i \in DOMAIN proc[p].events :
        proc[p].events[i].e \in {"forced", "forcedInvalid"}}

\* the tool-enabled call of every one of the MAX_TOOL_ROUNDS rounds was made
\* and requested tool calls
ToolsRequestedEveryRound(p) ==
    \A r \in 0..(MAX_TOOL_ROUNDS - 1) :
        \E i \in ToolEnabledCalls(p) :
            /\ proc[p].events[i].round = r
            /\ proc[p].events[i].idx > 0

\* every tool call requested in the last round was executed before event f
LastRoundExecutedBefore(p, f) ==
    \A i \in ToolEnabledCalls(p) :
        proc[p].events[i].round = MAX_TOOL_ROUNDS - 1 =>
            \A n \in 1..proc[p].events[i].idx :
                \E x \in (i + 1)..(f - 1) :
                    proc[p].events[x] = Event("exec", MAX_TOOL_ROUNDS - 1, n)

Done(p) == proc[p].pc \in {"returned", "thrown"}

RoundBound(p) ==
    /\ Cardinality(ToolEnabledCalls(p)) <= MAX_TOOL_ROUNDS
    /\ Cardinality(ForcedCalls(p)) <= 1
    /\ \A f \in ForcedCalls(p) :
          /\ ToolsRequestedEveryRound(p)
          /\ LastRoundExecutedBefore(p, f)
          /\ f = Len(proc[p].events)
          /\ proc[p].pc \in {"saveFinal", "returned", "thrown"}
    /\ (ToolsRequestedEveryRound(p) /\ proc[p].pc \in {"saveFinal", "returned"})
          => Cardinality(ForcedCalls(p)) = 1

\* C3 (round bound): processMessage makes at most 5 tool-enabled model calls;
\* when every one of the 5 rounds requests tools, the tools of the 5th round
\* are executed, exactly one further call with tools disabled is made and
\* that call is the last; and every activation ends, by returning or throwing.
C3_RoundBound ==
    /\ [](\A p \in Procs : RoundBound(p))
    /\ <>(\A p \in Procs : Done(p))

\* C3 witness: five tool rounds and the forced call, six model calls, returned
C3_Witness ==
    \E p \in Procs :
        /\ proc[p].pc = "returned"
        /\ Cardinality(ToolEnabledCalls(p)) = MAX_TOOL_ROUNDS
        /\ Cardinality(ForcedCalls(p)) = 1
        /\ Len(proc[p].toolsUsed) > MAX_TOOL_ROUNDS

ForcedInvalid(p) ==
    \E i \in DOMAIN proc[p].events : proc[p].events[i].e = "forcedInvalid"

\* C4 (fallback apology): when all 5 rounds request tools and the forced call
\* returns a response without choices or without a message, processMessage
\* does not throw and the message of the returned response is the apology.
C4_ForcedInvalidReturnsApology ==
    \A p \in Procs :
        (ForcedInvalid(p) /\ Done(p)) =>
            /\ proc[p].pc = "returned"
            /\ proc[p].response.message = Apology

\* the assistant row of the tool round in progress
IsRoundAssistantRow(p, row) ==
    /\ row.conversationId = proc[p].conversationId
    /\ row.role = "assistant"
    /\ row.toolCalls = ToolCallsForDb(proc[p].calls)

\* C9 (assistant message first): while the tools of a round are executed and
\* their responses appended, the assistant message carrying the round's tool
\* calls is already stored; every execution follows the save of its round's
\* assistant message, and every stored tool response follows, in insertion
\* order, an assistant row that declares its id.
C9_AssistantPersistedFirst ==
    \A p \in Procs :
        /\ proc[p].pc \in {"execTool", "saveTool"} =>
              \E k \in DOMAIN messages : IsRoundAssistantRow(p, messages[k])
        /\ \A i \in DOMAIN proc[p].events :
              proc[p].events[i].e = "exec" =>
                 \E j \in 1..(i - 1) :
                    proc[p].events[j] =
                        Event("saveAssistant", proc[p].events[i].round, 0)
        /\ \A k \in DOMAIN messages :
              messages[k].role = "tool" =>
                 \E j \in 1..(k - 1) :
                    /\ messages[j].role = "assistant"
                    /\ messages[k].toolCallId \in DeclaredIds(messages[j])

\* C9 witness: the first tool of a two-call round is about to be executed,
\* the assistant row being the last stored row
C9_Witness ==
    \E p \in Procs :
        /\ proc[p].pc = "execTool"
        /\ proc[p].idx = 1
        /\ Len(proc[p].calls) = 2
        /\ IsRoundAssistantRow(p, messages[Len(messages)])

\* the rows of a conversation in the order of their inserts
AppendOrder(msgs, conversationId) ==
    SelectSeq(msgs, LAMBDA row : row.conversationId = conversationId)

OwnRows(p) == SubSeq(messages, proc[p].base + 1, Len(messages))

\* the ids, and the names, of the tool calls declared by the assistant rows
\* of a row sequence, in the listed order
RECURSIVE ListedIds(_)
ListedIds(rows) ==
    IF rows = <<>> THEN <<>>
    ELSE [i \in DOMAIN Head(rows).toolCalls |-> Head(rows).toolCalls[i].id]
         \o ListedIds(Tail(rows))

RECURSIVE ListedNames(_)
ListedNames(rows) ==
    IF rows = <<>> THEN <<>>
    ELSE [i \in DOMAIN Head(rows).toolCalls |-> Head(rows).toolCalls[i].name]
         \o ListedNames(Tail(rows))

\* the ids answered by the tool rows of a row sequence, in row order
AnsweredIds(rows) ==
    LET t == SelectSeq(rows, LAMBDA row : row.role = "tool")
    IN  [i \in DOMAIN t |-> t[i].toolCallId]

IsPrefix(a, b) == Len(a) <= Len(b) /\ a = SubSeq(b, 1, Len(a))

ExecEvents(p) ==
    {i \in DOMAIN proc[p].events : proc[p].events[i].e = "exec"}
SaveToolEvents(p) ==
    {i \in DOMAIN proc[p].events : proc[p].events[i].e = "saveTool"}

\* C11 (sequential tool execution): within a round the calls are executed one
\* at a time in the listed order: the first execution directly follows the
\* save of the assistant message, every later one directly follows the append
\* of the previous call's response; at most one executed call is unanswered;
\* the tool rows, the audit rows and toolsUsed follow the listed order.
C11_SequentialToolExecution ==
    \A p \in Procs :
        LET ev == proc[p].events IN
        /\ \A i \in ExecEvents(p) :
              /\ i > 1
              /\ ev[i - 1] = IF ev[i].idx = 1
                             THEN Event("saveAssistant", ev[i].round, 0)
                             ELSE Event("saveTool", ev[i].round, ev[i].idx - 1)
        /\ \A i \in SaveToolEvents(p) :
              i > 1 /\ ev[i - 1] = Event("exec", ev[i].round, ev[i].idx)
        /\ Cardinality(ExecEvents(p)) - Cardinality(SaveToolEvents(p))
              \in {0, 1}
        /\ IsPrefix(AnsweredIds(OwnRows(p)), ListedIds(OwnRows(p)))
        /\ IsPrefix(proc[p].toolsUsed, ListedNames(OwnRows(p)))
        /\ proc[p].request.hasProject =>
              /\ Len(auditLog) = Cardinality(ExecEvents(p))
              /\ IsPrefix([i \in DOMAIN auditLog |-> auditLog[i].actionName],
                          ListedNames(OwnRows(p)))

\* C11 witness: both calls of a two-call round answered, in the listed order
C11_Witness ==
    \E p \in Procs :
        /\ proc[p].request.hasProject
        /\ Len(proc[p].calls) = 2
        /\ proc[p].calls[1].name # proc[p].calls[2].name
        /\ proc[p].pc = "callLLM"
        /\ AnsweredIds(OwnRows(p)) = <<"r1a", "r1b">>
        /\ Len(auditLog) = 2

\* the last step of p appended the tool response of the last executeTool call
JustAnswered(p) ==
    /\ proc[p].events # <<>>
    /\ proc[p].events[Len(proc[p].events)].e = "saveTool"
    /\ exec.called

\* the JSON text is that of an object whose error field is the given text
CarriesError(content, error) ==
    /\ content.kind = "json"
    /\ content.value.t = "object"
    /\ "error" \in DOMAIN content.value.of
    /\ content.value.of["error"] = error

\* C12 (tool failures are surfaced): when executeTool fails for a requested
\* call, processMessage goes on and the tool row appended for that call
\* carries the executor's error text.
C12_FailureSurfaced ==
    \A p \in Procs :
        /\ proc[p].error # "executeTool"
        /\ (JustAnswered(p) /\ ~exec.result.success) =>
              LET row == messages[Len(messages)] IN
              /\ row.role = "tool"
              /\ CarriesError(row.content, exec.result.error)

\* a string that is not empty
NonEmptyString(content) ==
    \/ content.kind = "json"
    \/ content.kind = "text" /\ content.text # ""

\* the ids of the executed calls, in execution order
ExecutedIds(p) ==
    [i \in DOMAIN proc[p].toolCallResults |-> proc[p].toolCallResults[i].id]

\* C13 (tool content is never empty): every tool row appended by processMessage
\* has a non-empty string content and the id of the call it answers; a null or
\* undefined result is replaced by {"error":"Tool returned no result"}, any
\* other result is serialized; the entry pushed on the in-memory messages has
\* the same content and id.
C13_ToolContentNeverEmpty ==
    \A p \in Procs :
        /\ \A k \in DOMAIN OwnRows(p) :
              OwnRows(p)[k].role = "tool" =>
                 /\ NonEmptyString(OwnRows(p)[k].content)
                 /\ OwnRows(p)[k].toolCallId # Null
        /\ IsPrefix(AnsweredIds(OwnRows(p)), ExecutedIds(p))
        /\ JustAnswered(p) =>
              LET row  == messages[Len(messages)]
                  last == proc[p].llmMessages[Len(proc[p].llmMessages)]
              IN  /\ row.role = "tool"
                  /\ row.toolCallId = ExecutedIds(p)[Len(ExecutedIds(p))]
                  /\ row.content =
                        IF NotNullish(exec.result.result)
                        THEN Stringify(exec.result.result)
                        ELSE Stringify([t |-> "object",
                                        of |-> [k \in {"error"} |-> ErrNoResult]])
                  /\ last = ToolLLMMessage(row.content, row.toolCallId)

\* C13 witness: a tool that succeeded without a result, answered by the payload
C13_Witness ==
    \E p \in Procs :
        /\ JustAnswered(p)
        /\ exec.result.success
        /\ ~NotNullish(exec.result.result)
        /\ CarriesError(messages[Len(messages)].content, ErrNoResult)

\* the loop of p was left by a response without tool calls
EndedByText(p) ==
    /\ proc[p].pc \in {"saveFinal", "returned"}
    /\ ForcedCalls(p) = {}

BuiltAfterCrash(p) ==
    /\ proc[p].attempt = 2
    /\ proc[p].pc \notin {"start", "updateContext", "addUser", "buildHistory"}

\* the call ids carried by an entry of a buildLLMContext output
EntryIds(m) ==
    {m.tool_calls[i].id : i \in DOMAIN m.tool_calls}
    \cup (IF m.role = "tool" THEN {m.tool_call_id} ELSE {})

\* no entry of the output belongs to the interrupted group
InterruptedGroupAbsent(p, out) ==
    \A k \in DOMAIN out : EntryIds(out[k]) \cap proc[p].interrupted = {}

\* the rows of the groups completed before the interruption: the assistant
\* rows with tool calls that are not the interrupted one, and their responses
CompletedGroupRows(p) ==
    SelectSeq(SubSeq(messages, 1, proc[p].base),
              LAMBDA row :
                 /\ row.role \in {"assistant", "tool"}
                 /\ (row.toolCalls # <<>> \/ row.role = "tool")
                 /\ (DeclaredIds(row) \cup
                       (IF row.role = "tool" THEN {row.toolCallId} ELSE {}))
                      \cap proc[p].interrupted = {})

\* the entries of the output that carry tool calls or answer one
GroupEntries(out) ==
    SelectSeq(out, LAMBDA m : m.tool_calls # <<>> \/ m.role = "tool")

\* the completed groups are replayed: their rows appear in the output, in
\* the order of their appends
CompletedGroupsReplayed(p, out) ==
    LET rows == CompletedGroupRows(p)
        ents == GroupEntries(out)
    IN  /\ Len(ents) = Len(rows)
        /\ \A k \in DOMAIN rows : ents[k] = ToLLMMessage(rows[k])

\* C15 (crash recovery): when processMessage stopped after the assistant
\* message of a tool round, or after some of its tool responses, the history
\* built by a later request contains no part of the interrupted group and
\* still contains the groups completed before it.
C15_CrashRecovery ==
    \A p \in Procs :
        BuiltAfterCrash(p) =>
            /\ InterruptedGroupAbsent(p, ctx.out)
            /\ CompletedGroupsReplayed(p, ctx.out)

\* the part of the above that does not depend on the read order: the
\* interrupted group is absent from the history built afterwards
PartialGroupNeverReplayed ==
    \A p \in Procs :
        BuiltAfterCrash(p) => InterruptedGroupAbsent(p, ctx.out)

(***************************************************************************)
(* SpecLLM: a request on a stored conversation and its invokeLLM calls     *)
(***************************************************************************)

\* processMessage awaits invokeLLM: the for loop starts with attempt = 1
LlmInvoke(p) ==
    /\ proc[p].pc = "callLLM"
    /\ llm.pc = "idle"
    /\ llm.calls < MaxLLMCalls
    /\ llm' = [IdleLLM(llm.calls + 1) EXCEPT !.pc = "fetch", !.attempt = 1]
    /\ UNCHANGED <<storeVars, ctx, execVars, proc, env, op>>

\* one iteration of the for loop up to its return, its sleep or its throw
LlmAttempt ==
    /\ llm.pc = "fetch"
    /\ llm.attempt <= MAX_RETRIES
    /\ \E o \in FetchOutcomes :
         LET tried == [llm EXCEPT !.log = Append(@, o)] IN
         llm' = IF o.kind = "json"
                THEN [tried EXCEPT !.pc = "returned", !.result = "parsed"]
                ELSE IF IsRetryable(ErrorMessage(o)) /\ CanRetry(llm.attempt)
                     THEN [tried EXCEPT !.pc = "sleep",
                                        !.lastError = ErrorMessage(o)]
                     ELSE [tried EXCEPT !.pc = "thrown",
                                        !.lastError = ErrorMessage(o)]
    /\ UNCHANGED <<storeVars, ctx, execVars, proc, env, op>>

\* await sleep(RETRY_DELAY_MS * attempt); continue
LlmSleep ==
    /\ llm.pc = "sleep"
    /\ llm' = [llm EXCEPT !.sleeps = Append(@, BackoffMs(llm.attempt)),
                          !.attempt = @ + 1,
                          !.pc = "fetch"]
    /\ UNCHANGED <<storeVars, ctx, execVars, proc, env, op>>

\* invokeLLM returned: processMessage goes on with the response
LlmResolve(p) ==
    /\ llm.pc = "returned"
    /\ proc[p].pc = "callLLM"
    /\ llm' = [llm EXCEPT !.pc = "idle"]
    /\ UNCHANGED <<storeVars, ctx, execVars, proc, env, op>>

\* invokeLLM threw: the catch of processMessage throws the error on
LlmReject(p) ==
    /\ llm.pc = "thrown"
    /\ proc[p].pc = "callLLM"
    /\ proc' = [proc EXCEPT ![p] = Throw(p, "llm error")]
    /\ llm' = [llm EXCEPT !.pc = "rejected"]
    /\ UNCHANGED <<storeVars, ctx, execVars, env, op>>

\* a request on a stored conversation, up to its model calls
InitLLM ==
    InitOf({r \in Requests : r.conversationId = "convA" /\ ~r.hasContext},
           {e \in Environments : e.clock = "ticking" /\ e.uuid = "ascending"})

NextLLM ==
    \/ LlmAttempt
    \/ LlmSleep
    \/ \E p \in Procs :
          \/ PmStart(p)
          \/ PmAddUser(p)
          \/ PmBuildHistory(p)
          \/ LlmInvoke(p)
          \/ LlmResolve(p)
          \/ LlmReject(p)

SpecLLM == InitLLM /\ [][NextLLM]_vars

(***************************************************************************)
(* Properties of invokeLLM                                                 *)
(***************************************************************************)

\* the k-th attempt of the call failed with a message classified transient
TransientAt(k) ==
    /\ llm.log[k].kind # "json"
    /\ IsRetryable(ErrorMessage(llm.log[k]))

\* the k-th attempt failed with a message not classified transient
FatalAt(k) ==
    /\ llm.log[k].kind # "json"
    /\ llm.log[k].text \cap RetryMarkers = {}
    /\ llm.log[k].kind \notin {"html", "garbage"}
    /\ llm.log[k].status \notin {"502", "503", "504"}

LlmEnded == llm.pc \in {"returned", "thrown", "rejected", "idle"}

\* C16 (bounded retries with linear backoff): a call makes at most 3
\* attempts; every attempt but the last failed transiently and was followed
\* by a wait of attempt x 1000 ms; a successful attempt ends the call with its
\* result; a transient failure ends the call only at the 3rd attempt, with
\* that attempt's error thrown, which aborts the request.
C16_BoundedRetries ==
    /\ [](LET n == Len(llm.log) IN
          /\ n <= MAX_RETRIES
          /\ \A k \in 1..(n - 1) : TransientAt(k)
          /\ Len(llm.sleeps) = (IF llm.pc = "fetch" \/ n = 0 THEN n ELSE n - 1)
          /\ \A k \in DOMAIN llm.sleeps : llm.sleeps[k] = k * 1000
          /\ llm.pc = "sleep" => (TransientAt(n) /\ n < MAX_RETRIES)
          /\ llm.pc = "returned" =>
                (llm.log[n].kind = "json" /\ llm.result = "parsed")
          /\ llm.pc \in {"thrown", "rejected"} =>
                /\ llm.log[n].kind # "json"
                /\ llm.lastError = ErrorMessage(llm.log[n])
                /\ TransientAt(n) => n = MAX_RETRIES
          /\ llm.pc = "rejected" => \E p \in Procs : proc[p].pc = "thrown")
    /\ [][/\ llm.pc = "sleep" =>
               (llm'.pc = "fetch" /\ llm'.attempt = llm.attempt + 1)
          /\ llm.pc = "returned" => llm'.log = llm.log
          /\ llm.pc \in {"thrown", "rejected"} =>
               (llm'.log = llm.log /\ llm'.sleeps = llm.sleeps)]_vars

\* C16 witness: three transient failures, waits of 1000 and 2000 ms, thrown
C16_Witness ==
    /\ llm.pc = "rejected"
    /\ Len(llm.log) = MAX_RETRIES
    /\ llm.log[1].kind = "html"
    /\ llm.log[2].status = "503"
    /\ llm.log[3].text = {"ETIMEDOUT"}
    /\ llm.sleeps = <<1000, 2000>>
    /\ llm.lastError = {"ETIMEDOUT"}

InvalidResponseErrors ==
    {"missing choices array", "missing message in choices[0]"}

SaveAssistantEvents(p) ==
    {i \in DOMAIN proc[p].events : proc[p].events[i].e = "saveAssistant"}

\* C18 (an invalid response aborts): when a tool-enabled call returns a
\* response without choices or without a message, processMessage throws at
\* once: that call is its last model call, no tool of that round is executed
\* and no row is appended after it - the rows of the request are its user
\* message and the rows of the rounds before.
C18_InvalidResponseAborts ==
    \A p \in Procs :
        proc[p].error \in InvalidResponseErrors =>
            LET ev == proc[p].events
                n  == Len(ev)
            IN  /\ proc[p].pc = "thrown"
                /\ ev[n] = Event("llm", proc[p].round, 0)
                /\ \A i \in ExecEvents(p) : ev[i].round < proc[p].round
                /\ Len(OwnRows(p)) =
                      1 + Cardinality(SaveAssistantEvents(p))
                        + Cardinality(SaveToolEvents(p))
                /\ OwnRows(p)[Len(OwnRows(p))].role \in {"user", "tool"}
                /\ proc[p].response = NoResponse

\* C18 witness: a response without a message in the second round
C18_Witness ==
    \E p \in Procs :
        /\ proc[p].pc = "thrown"
        /\ proc[p].error = "missing message in choices[0]"
        /\ proc[p].round = 1
        /\ Len(OwnRows(p)) = 3
        /\ OwnRows(p)[3].role = "tool"

\* the tool call whose execution p has just made
ExecutedCall(p) == ToolCallAt(proc[p].calls, proc[p].idx)

\* the rounds whose tools are done: a later model call was made
RoundIsOver(p, i) ==
    \E j \in (i + 1)..Len(proc[p].events) :
        proc[p].events[j].e \in {"llm", "forced", "forcedInvalid"}

\* C19 (unparsable arguments): a tool call whose argument text does not parse
\* is executed with the empty argument object and answered by a tool row;
\* processMessage does not throw, and every call of a round is executed and
\* answered before the next model call.
C19_UnparsableArguments ==
    \A p \in Procs :
        /\ (proc[p].pc = "saveTool"
              /\ ~JsonParse(ExecutedCall(p).arguments).ok) =>
              /\ exec.toolName = ExecutedCall(p).name
              /\ exec.args = <<>>
              /\ ~exec.threw
              /\ proc[p].toolCallResults[Len(proc[p].toolCallResults)].id
                    = ExecutedCall(p).id
        /\ \A i \in ToolEnabledCalls(p) :
              RoundIsOver(p, i) =>
                 \A n \in 1..proc[p].events[i].idx :
                    \E x, y \in (i + 1)..Len(proc[p].events) :
                       /\ x < y
                       /\ proc[p].events[x] =
                             Event("exec", proc[p].events[i].round, n)
                       /\ proc[p].events[y] =
                             Event("saveTool", proc[p].events[i].round, n)

\* C19 witness: a round of two calls, the first with unparsable arguments,
\* both executed and answered
C19_Witness ==
    \E p \in Procs :
        /\ proc[p].pc = "callLLM"
        /\ proc[p].round = 1
        /\ Len(proc[p].calls) = 2
        /\ ~JsonParse(proc[p].calls[1].arguments).ok
        /\ proc[p].toolCallResults[1].arguments = <<>>
        /\ AnsweredIds(OwnRows(p)) = <<"r1a", "r1b">>

\* C20 (token accounting): the tokens of the returned metadata, and of the
\* final assistant message, are the sum of usage.total_tokens over every
\* model call of the request, the forced call included.
C20_TokensAreSummed ==
    \A p \in Procs :
        proc[p].pc = "returned" =>
            /\ proc[p].response.metadata.tokens = proc[p].reported
            /\ messages[Len(messages)].metadata = Metadata(proc[p].reported)

(***************************************************************************)
(* SpecStore: the operations of ConversationManager on two conversations   *)
(***************************************************************************)

\* store operations made in one behaviour of SpecStore
MaxStoreOps == 3

\* the addMessage parameters appended under SpecStore
StoreParams ==
    [conversationId : ConvIds, role : {"user"}, content : {Str("text")},
     toolCalls : {<<>>}, toolCallId : {Null}, metadata : {NoMetadata}]
    \cup
    [conversationId : {"convA"}, role : {"assistant"}, content : {Str("text")},
     toolCalls : {<<>>, <<ToolCall("c1")>>}, toolCallId : {Null},
     metadata : {NoMetadata}]
    \cup
    [conversationId : ConvIds, role : {"tool"}, content : {Str("text")},
     toolCalls : {<<>>}, toolCallId : {"c1"}, metadata : {NoMetadata}]

\* window sizes buildLLMContext is called with under SpecStore
StoreWindows == {2, DefaultMaxMessages}

InitStore ==
    /\ conversations =
         [c \in ConvIds |->
             [status |-> "active", context |-> [k \in {"currentPage"} |-> "home"]]]
    /\ messages = <<>>
    /\ ctx = NoCtx
    /\ tools = <<>>
    /\ auditLog = <<>>
    /\ exec = NoExec
    /\ execCount = 0
    /\ handlerCalls = 0
    /\ proc = NoProc
    /\ env \in {e \in Environments : e.foreignKey}
    /\ llm = NoLLM
    /\ op = NoOp

\* the record of the store operation just made
NextOp(name, conversationId, removed, deleting) ==
    [name |-> name, conversationId |-> conversationId, seq |-> op.seq + 1,
     deleted |-> op.deleted + removed, deleting |-> deleting]

\* conversationManager.addMessage(params): the insert is rejected (and
\* addMessage throws) when the conversation row is not stored
StoreAddMessage ==
    /\ op.seq < MaxStoreOps
    /\ \E params \in StoreParams :
         /\ messages' = IF params.conversationId \in DOMAIN conversations
                         THEN Insert(env, messages, params)
                         ELSE messages
         /\ op' = NextOp("addMessage", params.conversationId, 0, op.deleting)
    /\ ctx' = NoCtx
    /\ UNCHANGED <<conversations, execVars, proc, env, llm>>

\* conversationManager.updateContext(conversationId, context): throws for a
\* conversation that is not stored
StoreUpdateContext ==
    /\ op.seq < MaxStoreOps
    /\ \E c \in ConvIds :
         /\ conversations' =
              IF c \in DOMAIN conversations
              THEN [conversations EXCEPT
                      ![c].context = MergeContext(@, RequestContext)]
              ELSE conversations
         /\ op' = NextOp("updateContext", c, 0, op.deleting)
    /\ ctx' = NoCtx
    /\ UNCHANGED <<messages, execVars, proc, env, llm>>

\* conversationManager.archiveConversation(conversationId)
StoreArchive ==
    /\ op.seq < MaxStoreOps
    /\ \E c \in ConvIds :
         /\ conversations' = archiveConversation(conversations, c)
         /\ op' = NextOp("archiveConversation", c, 0, op.deleting)
    /\ ctx' = NoCtx
    /\ UNCHANGED <<messages, execVars, proc, env, llm>>

\* conversationManager.deleteConversation(conversationId), lines 354-356: the
\* messages are deleted; the call is suspended before its second statement
StoreDeleteMessages ==
    /\ op.seq < MaxStoreOps
    /\ op.deleting = Null
    /\ \E c \in ConvIds :
         LET rest == deleteMessages(messages, c)
         IN  /\ messages' = rest
             /\ op' = NextOp("deleteMessages", c, Len(messages) - Len(rest), c)
    /\ ctx' = NoCtx
    /\ UNCHANGED <<conversations, execVars, proc, env, llm>>

\* deleteConversation, lines 359-361: the conversation row is deleted, the
\* database removes the rows that reference it, and the call returns (a
\* call that began is completed whatever the number of operations made)
StoreDeleteConversation ==
    /\ op.deleting # Null
    /\ LET c    == op.deleting
           rest == CascadeDelete(messages, c)
       IN  /\ conversations' = deleteConversationRow(conversations, c)
           /\ messages' = rest
           /\ op' = NextOp("deleteConversation", c, Len(messages) - Len(rest),
                           Null)
    /\ ctx' = NoCtx
    /\ UNCHANGED <<execVars, proc, env, llm>>

\* conversationManager.buildLLMContext(conversationId, maxMessages)
StoreBuild ==
    /\ \E c \in ConvIds, maxMessages \in StoreWindows :
         LET r == buildLLMContext(messages, c, maxMessages)
         IN  ctx' = [called |-> TRUE, conversationId |-> c,
                     maxMessages |-> maxMessages, window |-> r.window,
                     validated |-> r.validated, out |-> r.out]
    /\ UNCHANGED <<storeVars, execVars, proc, env, llm, op>>

NextStore ==
    \/ StoreAddMessage
    \/ StoreUpdateContext
    \/ StoreArchive
    \/ StoreDeleteMessages
    \/ StoreDeleteConversation
    \/ StoreBuild

SpecStore == InitStore /\ [][NextStore]_vars

(***************************************************************************)
(* SpecIso: processMessage on one conversation, while other requests       *)
(* operate on another conversation                                         *)
(***************************************************************************)

\* operations made on the other conversation in one behaviour of SpecIso
MaxOtherOps == 2

\* the conversation the other requests operate on
OtherConversation == "convB"

\* the rows appended to the other conversation: a user message, an assistant
\* message with a tool call, its tool response
OtherParams ==
    {q \in StoreParams : q.conversationId = OtherConversation}
    \cup
    [conversationId : {OtherConversation}, role : {"assistant"},
     content : {NullStr}, toolCalls : {<<ToolCall("c1")>>}, toolCallId : {Null},
     metadata : {NoMetadata}]

\* processMessage runs its nominal course on convA, with or without a context
InitIso ==
    /\ conversations =
         [c \in ConvIds |->
             [status |-> "active", context |-> [k \in {"currentPage"} |-> "home"]]]
    /\ messages = <<>>
    /\ ctx = NoCtx
    /\ tools = OrchRegistry
    /\ auditLog = <<>>
    /\ exec = NoExec
    /\ execCount = 0
    /\ handlerCalls = 0
    /\ proc \in [Procs -> {InitProc(r) : r \in
                     {q \in Requests : q.conversationId = "convA" /\ q.hasProject}}]
    /\ env \in {e \in [clock : {"ticking", "frozen"}, uuid : {"ascending", "descending"},
                        faults : {0}, foreignKey : {TRUE}] :
                    (e.clock = "ticking") <=> (e.uuid = "ascending")}
    /\ llm = IdleLLM(0)
    /\ op = NoOp

\* another request appends a message to the other conversation
OtherAddMessage ==
    /\ op.seq < MaxOtherOps
    /\ \E params \in OtherParams :
         /\ messages' = IF params.conversationId \in DOMAIN conversations
                         THEN Insert(env, messages, params)
                         ELSE messages
         /\ op' = NextOp("addMessage", params.conversationId, 0, op.deleting)
    /\ UNCHANGED <<conversations, ctx, execVars, proc, env, llm>>

\* another request archives the other conversation
OtherArchive ==
    /\ op.seq < MaxOtherOps
    /\ conversations' = archiveConversation(conversations, OtherConversation)
    /\ op' = NextOp("archiveConversation", OtherConversation, 0, op.deleting)
    /\ UNCHANGED <<messages, ctx, execVars, proc, env, llm>>

\* another request deletes the other conversation: first statement
OtherDeleteMessages ==
    /\ op.seq < MaxOtherOps
    /\ op.deleting = Null
    /\ LET rest == deleteMessages(messages, OtherConversation)
       IN  /\ messages' = rest
           /\ op' = NextOp("deleteMessages", OtherConversation,
                           Len(messages) - Len(rest), OtherConversation)
    /\ UNCHANGED <<conversations, ctx, execVars, proc, env, llm>>

\* another request deletes the other conversation: second statement
OtherDeleteConversation ==
    /\ op.deleting # Null
    /\ LET c    == op.deleting
           rest == CascadeDelete(messages, c)
       IN  /\ conversations' = deleteConversationRow(conversations, c)
           /\ messages' = rest
           /\ op' = NextOp("deleteConversation", c, Len(messages) - Len(rest),
                           Null)
    /\ UNCHANGED <<ctx, execVars, proc, env, llm>>

NextIso ==
    \/ Next
    \/ OtherAddMessage
    \/ OtherArchive
    \/ OtherDeleteMessages
    \/ OtherDeleteConversation

SpecIso == InitIso /\ [][NextIso]_vars

(***************************************************************************)
(* Properties of the store                                                 *)
(***************************************************************************)

\* C21 (tool appends carry a toolCallId): an append with role tool and a
\* missing or empty toolCallId is rejected, so no stored tool-role message
\* lacks a toolCallId.
C21_ToolRowsCarryToolCallId ==
    \A i \in DOMAIN messages :
        messages[i].role = "tool" => messages[i].toolCallId # Null

\* a is a subsequence of b: entries of b, in the order of b
RECURSIVE IsSubseq(_, _)
IsSubseq(a, b) ==
    IF a = <<>> THEN TRUE
    ELSE IF b = <<>> THEN FALSE
    ELSE IF Head(a) = Head(b) THEN IsSubseq(Tail(a), Tail(b))
    ELSE IsSubseq(a, Tail(b))

Min(a, b) == IF a < b THEN a ELSE b

\* the emitted turn carries the role, content, tool-call ids and back
\* reference of the stored row, nothing else
TurnOfRow(turn, row) ==
    /\ turn.role = row.role
    /\ turn.content = row.content \/ Falsy(row.content)
    /\ {turn.tool_calls[i].id : i \in DOMAIN turn.tool_calls}
           \subseteq DeclaredIds(row)
    /\ turn.tool_call_id \in {Null, row.toolCallId}

OpStep(names) == op'.seq # op.seq /\ op'.name \in names

\* C23 (append-only messages): every operation leaves each stored message
\* as it was (same role, content, tool-call list, toolCallId, metadata), and
\* only deleteConversation removes messages, those of its conversation.
C23_AppendOnly ==
    [][/\ \A i \in DOMAIN messages :
            \/ \E j \in DOMAIN messages' : messages'[j] = messages[i]
            \/ /\ OpStep({"deleteMessages", "deleteConversation"})
               /\ messages[i].conversationId = op'.conversationId
       /\ \A i \in DOMAIN messages, j \in DOMAIN messages' :
            messages'[j].id = messages[i].id => messages'[j] = messages[i]]_vars

\* C23 witness: two messages stored, their conversation then archived
C23_Witness ==
    /\ op.name = "archiveConversation"
    /\ Len(messages) = 2
    /\ \A i \in DOMAIN messages : messages[i].conversationId = op.conversationId
    /\ conversations[op.conversationId].status = "archived"

\* the rows of the conversations other than c, in stored order
OtherRows(msgs, c) == SelectSeq(msgs, LAMBDA m : m.conversationId # c)

\* the conversation rows other than c
OtherConversations(convs, c) == [x \in (DOMAIN convs) \ {c} |-> convs[x]]

OwnRowsOf(msgs, c) == SelectSeq(msgs, LAMBDA m : m.conversationId = c)

\* the rows the step appended
Appended == SubSeq(messages', Len(messages) + 1, Len(messages'))

\* C25 (conversations are independent): an operation on the other
\* conversation (append, archive, delete) leaves the stored messages, the
\* conversation row and the buildLLMContext output of processMessage's
\* conversation unchanged; processMessage appends only to its conversation,
\* leaves the rows of the other one as they are, and builds its history
\* from the rows of its conversation alone.
C25_ConversationsIndependent ==
    /\ [][(op'.seq # op.seq /\ op'.conversationId # "convA") =>
            /\ OwnRowsOf(messages', "convA") = OwnRowsOf(messages, "convA")
            /\ conversations'["convA"] = conversations["convA"]
            /\ buildLLMContext(messages', "convA", DefaultMaxMessages)
                 = buildLLMContext(messages, "convA", DefaultMaxMessages)
            /\ proc' = proc /\ ctx' = ctx]_vars
    /\ [][op'.seq = op.seq =>
            /\ OtherRows(messages', "convA") = OtherRows(messages, "convA")
            /\ OtherConversations(conversations', "convA")
                 = OtherConversations(conversations, "convA")
            /\ OwnRowsOf(messages', "convA")
                 = OwnRowsOf(messages, "convA") \o Appended
            /\ \A p \in Procs :
                 (proc[p].pc = "buildHistory" /\ proc'[p].pc = "callLLM") =>
                    /\ ctx'.out = buildLLMContext(OwnRowsOf(messages, "convA"),
                                                  "convA", DefaultMaxMessages).out
                    /\ proc'[p].llmMessages = InitialLLMMessages(ctx'.out)]_vars

\* C25 witness: the request completed a tool round and returned while rows
\* of the other conversation were appended between its rows and the other
\* conversation was then deleted
C25_Witness ==
    /\ \E p \in Procs : proc[p].pc = "returned" /\ Len(proc[p].toolsUsed) > 0
    /\ OtherConversation \notin DOMAIN conversations
    /\ op.deleted > 0
    /\ Len(messages) > 2

(***************************************************************************)
(* Properties of processMessage: the conversation of a request             *)
(***************************************************************************)

\* the activation is past the step that gets or creates the conversation
Resolved(p) == proc[p].pc # "start"

\* the steps that follow the append of the user message
AfterUserMessage ==
    {"buildHistory", "callLLM", "saveAssistant", "delay", "execTool", "saveTool",
     "forceFinal", "saveFinal", "returned"}

\* the user message is stored, in the request's conversation, before the
\* history is built and the model is called; every row of the request is in
\* that conversation, whose id is the one returned
UserMessageFirst(p) ==
    /\ (proc[p].pc \in AfterUserMessage \/ Len(proc[p].events) > 0) =>
          /\ Len(messages) > proc[p].base
          /\ messages[proc[p].base + 1].role = "user"
          /\ messages[proc[p].base + 1].content = Str(proc[p].request.message)
          /\ (proc[p].request.conversationId # Null =>
                 proc[p].conversationId = proc[p].request.conversationId)
    /\ (ctx.called /\ proc[p].pc \in AfterUserMessage) =>
          /\ ctx.conversationId = proc[p].conversationId
          /\ \E i \in DOMAIN ctx.window :
                ctx.window[i] = messages[proc[p].base + 1]
    /\ \A i \in (proc[p].base + 1)..Len(messages) :
          messages[i].conversationId = proc[p].conversationId
    /\ proc[p].pc = "returned" =>
          proc[p].response.conversationId = proc[p].conversationId

\* C26 (the conversation of a request): processMessage creates a conversation
\* exactly when the request carries no conversationId; the user message is
\* appended to the request's conversation before the history is built and
\* before the first model call, every row of the request goes to that
\* conversation, and its id is the conversationId returned.
C26_ConversationOfRequest ==
    \A p \in Procs :
        /\ Resolved(p) =>
             ("convNew" \in DOMAIN conversations
                 <=> proc[p].request.conversationId = Null)
        /\ UserMessageFirst(p)

\* what holds of C26 in every behaviour: no conversation is created for a
\* request that names one, and the rows of a request that got its
\* conversation are appended as the claim says
C26_OrderAndTarget ==
    \A p \in Procs :
        /\ "convNew" \in DOMAIN conversations =>
              proc[p].request.conversationId = Null
        /\ UserMessageFirst(p)

(***************************************************************************)
(* Properties of the filter of buildLLMContext                             *)
(***************************************************************************)

\* C30 (only group members are excluded): every user message, system message
\* and assistant message without tool calls of the fetched window is in the
\* validated list, one that follows a dropped incomplete group with no user
\* message in between included.
C30_OnlyGroupMembersExcluded ==
    ctx.called =>
      \A i \in DOMAIN ctx.window :
          \/ ctx.window[i].role \in {"user", "system"}
          \/ ctx.window[i].role = "assistant" /\ ~HasToolCalls(ctx.window[i])
          => \E j \in DOMAIN ctx.validated : ctx.validated[j] = ctx.window[i]

(***************************************************************************)
(* Properties of the rows and of the response of one request               *)
(***************************************************************************)

IsToolRound(row) == row.role = "assistant" /\ HasToolCalls(row)
IsFinalAnswer(row) == row.role = "assistant" /\ ~HasToolCalls(row)

\* rows is: a user message, then groups of an assistant message with tool
\* calls and one tool message per listed call, in the listed order, then one
\* assistant message without tool calls
WellShaped(rows) ==
    /\ Len(rows) >= 2
    /\ rows[1].role = "user"
    /\ rows[2].role = "assistant"
    /\ IsFinalAnswer(rows[Len(rows)])
    /\ \A i \in 2..(Len(rows) - 1) : IsToolRound(rows[i]) \/ rows[i].role = "tool"
    /\ \A i \in 2..(Len(rows) - 1) :
         IsToolRound(rows[i]) =>
           LET n == Len(rows[i].toolCalls)
           IN  /\ i + n < Len(rows)
               /\ \A k \in 1..n :
                    /\ rows[i + k].role = "tool"
                    /\ rows[i + k].toolCallId = rows[i].toolCalls[k].id
               /\ rows[i + n + 1].role = "assistant"

\* the tool rounds the activation went through
RoundsRun(p) ==
    Cardinality({i \in DOMAIN proc[p].events : proc[p].events[i].e = "saveAssistant"})

C31_WitnessThrown ==
    \E p \in Procs :
        /\ proc[p].pc = "thrown"
        /\ RoundsRun(p) >= 1
        /\ Len(OwnRows(p)) >= 3

\* C32 (the returned message is the stored one): when processMessage has
\* returned, the message field of its response equals the content of the
\* final assistant message it appended, also when the captured model text is
\* empty.
C32_ReturnedIsStored ==
    \A p \in Procs :
        proc[p].pc = "returned" =>
            proc[p].response.message = OwnRows(p)[Len(OwnRows(p))].content

\* with a non-empty captured text the returned message is the stored one
C32_NonEmptyReturnedIsStored ==
    \A p \in Procs :
        (proc[p].pc = "returned" /\ ~Falsy(proc[p].responseContent)) =>
            proc[p].response.message = OwnRows(p)[Len(OwnRows(p))].content

(***************************************************************************)
(* SpecRace: two processMessage requests on the same stored conversation   *)
(***************************************************************************)

\* tool rounds the model starts under SpecRace, both requests together
MaxRaceRounds == 2

RaceProcs == {"req1", "req2"}

\* both requests name the stored conversation; the first carries a context
RaceRequest(p) ==
    [conversationId |-> "convA", hasContext |-> (p = "req1"),
     hasProject |-> TRUE, message |-> "hello"]

\* the two activations, on the nominal path (text answers and single tool
\* calls that succeed); the model issues each its own tool-call ids
InitRace ==
    /\ conversations =
         [c \in {"convA"} |->
             [status |-> "active", context |-> [k \in {"currentPage"} |-> "home"]]]
    /\ messages = <<>>
    /\ ctx = NoCtx
    /\ tools = OrchRegistry
    /\ auditLog = <<>>
    /\ exec = NoExec
    /\ execCount = 0
    /\ handlerCalls = 0
    /\ proc = [p \in RaceProcs |->
                 [InitProc(RaceRequest(p)) EXCEPT
                    !.attempt = IF p = "req1" THEN 1 ELSE 2]]
    /\ env = [clock |-> "ticking", uuid |-> "ascending", faults |-> 0,
               foreignKey |-> TRUE]
    /\ llm = IdleLLM(0)
    /\ op = NoOp

\* the assistant rows with tool calls stored so far
RoundsStored ==
    Cardinality({i \in DOMAIN messages :
                    messages[i].role = "assistant" /\ HasToolCalls(messages[i])})

\* the steps of the two activations, each awaited operation being a point
\* where the other activation may run (the forced call after the fifth round
\* lies beyond MaxRaceRounds)
NextRace ==
    \E p \in RaceProcs :
        \/ PmStart(p)
        \/ PmUpdateContext(p)
        \/ PmAddUser(p)
        \/ PmBuildHistory(p)
        \/ PmCallLLM(p) /\ (proc'[p].pc = OnToolCalls => RoundsStored < MaxRaceRounds)
        \/ PmSaveAssistant(p)
        \/ PmDelay(p)
        \/ PmExecTool(p)
        \/ PmSaveTool(p)
        \/ PmSaveFinal(p)

SpecRace == InitRace /\ [][NextRace]_vars

\* the assistant row with tool calls at position i has all its responses stored
RoundCompleted(i) ==
    /\ messages[i].role = "assistant"
    /\ HasToolCalls(messages[i])
    /\ \A id \in DeclaredIds(messages[i]) :
         \E j \in DOMAIN messages :
            /\ j > i
            /\ messages[j].role = "tool"
            /\ messages[j].toolCallId = id

\* the group of the row appears whole in the output: the assistant turn with
\* its tool calls and, after it, a tool turn for each of them
GroupReplayed(row, out) ==
    \E k \in DOMAIN out :
        /\ out[k].role = "assistant"
        /\ EntryIds(out[k]) = DeclaredIds(row)
        /\ \A id \in DeclaredIds(row) :
             \E j \in DOMAIN out :
                /\ j > k
                /\ out[j].role = "tool"
                /\ out[j].tool_call_id = id

\* C33 (completed rounds survive concurrency): with two requests running on
\* the same conversation, every tool round whose assistant message and tool
\* responses are all stored appears as a complete group in the output of
\* buildLLMContext, whatever the interleaving of the two requests' appends.
C33_CompletedRoundsReplayed ==
    \A i \in DOMAIN messages :
        RoundCompleted(i) =>
            GroupReplayed(messages[i],
                          buildLLMContext(messages, "convA", DefaultMaxMessages).out)

(***************************************************************************)
(* Properties of processMessage, continued                                *)
(***************************************************************************)

\* C34 (no message for an unknown conversation): processMessage appends no
\* message to a conversation id that is not stored; a request that supplies
\* an unknown conversationId fails before any message is inserted, with or
\* without a context.
C34_NoRowsForUnknownConversation ==
    /\ \A i \in DOMAIN messages : messages[i].conversationId \in DOMAIN conversations
    /\ \A p \in Procs :
         (/\ proc[p].request.conversationId # Null
          /\ proc[p].request.conversationId \notin DOMAIN conversations
          /\ proc[p].pc \notin {"start", "updateContext", "addUser"})
         => proc[p].pc = "thrown" /\ messages = <<>>

\* with a context the request for an unknown conversation is stopped by
\* updateContext, whatever the table's constraints
C34_ContextStopsUnknownConversation ==
    \A p \in Procs :
        (/\ proc[p].request.hasContext
         /\ proc[p].request.conversationId # Null
         /\ proc[p].request.conversationId \notin DOMAIN conversations
         /\ proc[p].pc \notin {"start", "updateContext"})
        => proc[p].pc = "thrown" /\ proc[p].error = "not found" /\ messages = <<>>

\* the arguments listed for the call id by the assistant rows p has stored
StoredArguments(p, id) ==
    UNION {{OwnRows(p)[i].toolCalls[k].arguments :
               k \in {n \in DOMAIN OwnRows(p)[i].toolCalls :
                         OwnRows(p)[i].toolCalls[n].id = id}}
             : i \in DOMAIN OwnRows(p)}

\* the call p has just executed was stored, executed, audited and recorded
\* for the response with the same arguments
SameArguments(p) ==
    /\ StoredArguments(p, ExecutedCall(p).id) = {exec.args}
    /\ proc[p].toolCallResults[Len(proc[p].toolCallResults)].arguments = exec.args
    /\ \A k \in DOMAIN exec.audits : exec.audits[k].action.input = exec.args

\* C35 (one argument object per call): for each tool call of a round the
\* arguments listed in the stored assistant message are the arguments passed
\* to executeTool, written to its audit record and returned in the toolCalls
\* entry, also when the argument text of the model is not valid JSON.
C35_SameArgumentsEverywhere ==
    \A p \in Procs : proc[p].pc = "saveTool" => SameArguments(p)

\* the same for the calls whose argument text parses
C35_SameParsedArguments ==
    \A p \in Procs :
        (proc[p].pc = "saveTool" /\ JsonParse(ExecutedCall(p).arguments).ok)
        => SameArguments(p)

\* what the round trip compares of a turn: its role, the ids of its tool
\* calls, its back-reference, and its content when it is a tool turn
TurnShape(m) ==
    [role         |-> m.role,
     ids          |-> [i \in DOMAIN m.tool_calls |-> m.tool_calls[i].id],
     tool_call_id |-> m.tool_call_id,
     content      |-> IF m.role = "tool" THEN m.content ELSE NullStr]

\* the output of buildLLMContext on the stored rows is, turn by turn, the
\* list that was sent to the model (the system turn left out), followed by
\* the final assistant turn
RoundTrip(p) ==
    LET out  == buildLLMContext(messages, proc[p].conversationId,
                                DefaultMaxMessages).out
        sent == Tail(proc[p].llmMessages)
    IN  /\ Len(out) = Len(sent) + 1
        /\ \A k \in DOMAIN sent : TurnShape(out[k]) = TurnShape(sent[k])

\* C37 (round trip of the transcript): for a request whose rows fit in the
\* window, buildLLMContext on the stored transcript gives for the user
\* message, the tool rounds and the tool responses of the request the same
\* roles, tool-call ids, back-references and tool contents, in the same
\* order, as the in-memory list sent to the model.
C37_TranscriptRoundTrip ==
    \A p \in Procs : proc[p].pc = "returned" => RoundTrip(p)

\* the round trip where every row of the request got its own timestamp
C37_RoundTripWithDistinctTimestamps ==
    \A p \in Procs :
        (proc[p].pc = "returned" /\ env.clock = "ticking") => RoundTrip(p)

=============================================================================
